---- MODULE Spec2Model ----
(***************************************************************************)
(* Model of riskfolio.src.HCPortfolio.HCPortfolio: the hierarchical-       *)
(* clustering portfolio allocator (HRP / HERC / HERC2 / NCO) and its bound *)
(* projection, as a state machine over one HCPortfolio object and the      *)
(* frames of its optimization() calls.                                     *)
(*                                                                         *)
(* Numbers are exact rationals <<num, den>> (den > 0, lowest terms).       *)
(* Assets are 0 .. NumAssets-1 as in the code (iloc positions); a linkage  *)
(* matrix Z over n leaves is a sequence of n-1 rows <<left, right, dist>>, *)
(* row i (1-based) creating node NumAssets-1+i, as scipy numbers them.     *)
(***************************************************************************)
EXTENDS Integers, Sequences, FiniteSets, TLC

\* ---------------------------------------------------------------------------
\* Bounds of the model
\* ---------------------------------------------------------------------------
NumAssets == 3
MaxDist == 1
MaxVar == 2
MaxCalls == 2
WeightGrid == 5

Assets == 0 .. (NumAssets - 1)

VARIABLES
    objs,    \* objs[o]: the fields of HCPortfolio object o
    fr,      \* fr[f]: the locals and the position of call frame f
    env,     \* what the external estimators derive from the returns table
    ncalls   \* optimization() calls started so far

\* ---------------------------------------------------------------------------
\* Exact rational arithmetic
\* ---------------------------------------------------------------------------
Abs(a) == IF a < 0 THEN 0 - a ELSE a

RECURSIVE GCD(_, _)
GCD(a, b) == IF b = 0 THEN a ELSE GCD(b, a % b)

Norm(n, d) ==
    LET s == IF d < 0 THEN 0 - 1 ELSE 1
        g == GCD(Abs(n), Abs(d))
    IN  IF n = 0 THEN <<0, 1>> ELSE <<(s * n) \div g, (s * d) \div g>>

R(n) == <<n, 1>>
RZero == <<0, 1>>
ROne == <<1, 1>>
RAdd(x, y) == Norm(x[1] * y[2] + y[1] * x[2], x[2] * y[2])
RSub(x, y) == Norm(x[1] * y[2] - y[1] * x[2], x[2] * y[2])
RMul(x, y) == Norm(x[1] * y[1], x[2] * y[2])
RDiv(x, y) == Norm(x[1] * y[2], x[2] * y[1])
RLt(x, y) == x[1] * y[2] < y[1] * x[2]
RLe(x, y) == x[1] * y[2] <= y[1] * x[2]
RMin(x, y) == IF RLe(x, y) THEN x ELSE y
RMax(x, y) == IF RLe(x, y) THEN y ELSE x

\* sum of a sequence of rationals
RECURSIVE RSumSeq(_)
RSumSeq(s) == IF s = <<>> THEN RZero ELSE RAdd(Head(s), RSumSeq(Tail(s)))

\* the elements of a finite set of integers in increasing order
RECURSIVE SortedSeq(_)
SortedSeq(S) ==
    IF S = {} THEN <<>>
    ELSE LET m == CHOOSE x \in S : \A y \in S : x <= y
         IN  <<m>> \o SortedSeq(S \ {m})

Range(s) == {s[i] : i \in 1 .. Len(s)}

\* sum of w[a] over the assets a of set S
RSumOver(w, S) == RSumSeq([i \in 1 .. Cardinality(S) |-> w[SortedSeq(S)[i]]])

\* ---------------------------------------------------------------------------
\* scipy.cluster.hierarchy: the linkage matrix and its tree
\* ---------------------------------------------------------------------------
NodeIds == 0 .. (2 * NumAssets - 2)
RootId == 2 * NumAssets - 2
is_leaf(v) == v < NumAssets
get_left(Z, v) == Z[v - NumAssets + 1][1]
get_right(Z, v) == Z[v - NumAssets + 1][2]
\* ClusterNode.dist: the merge distance, 0 for a leaf
NodeDist(Z, v) == IF is_leaf(v) THEN 0 ELSE Z[v - NumAssets + 1][3]

\* ClusterNode.pre_order(): the leaf ids under v, left to right
RECURSIVE pre_order(_, _)
pre_order(Z, v) ==
    IF is_leaf(v) THEN <<v>>
    ELSE pre_order(Z, get_left(Z, v)) \o pre_order(Z, get_right(Z, v))

LeafSet(Z, v) == Range(pre_order(Z, v))

\* A well-formed linkage matrix: every row merges two distinct nodes that
\* exist already and were not merged before.
IsLinkage(Z) ==
    /\ \A i \in 1 .. (NumAssets - 1) :
          /\ Z[i][1] # Z[i][2]
          /\ Z[i][1] < NumAssets - 1 + i
          /\ Z[i][2] < NumAssets - 1 + i
    /\ \A i, j \in 1 .. (NumAssets - 1) :
          i < j => {Z[i][1], Z[i][2]} \cap {Z[j][1], Z[j][2]} = {}

\* merge heights never decrease along the rows (single, complete, average,
\* weighted and ward linkage; centroid and median may invert)
IsMonotone(Z) == \A i \in 1 .. (NumAssets - 2) : Z[i][3] <= Z[i + 1][3]

\* the trees over the assets: every merge order and left/right placement,
\* with every non-decreasing sequence of merge heights in 0 .. MaxDist
Pairs == (0 .. (2 * NumAssets - 3)) \X (0 .. (2 * NumAssets - 3))
Shapes == {T \in [1 .. (NumAssets - 1) -> Pairs] : IsLinkage(T)}
Heights == {D \in [1 .. (NumAssets - 1) -> 0 .. MaxDist] : IsMonotone([i \in DOMAIN D |-> <<0, 0, D[i]>>])}
Linkages ==
    {[i \in 1 .. (NumAssets - 1) |-> <<T[i][1], T[i][2], D[i]>>] : T \in Shapes, D \in Heights}

\* ---------------------------------------------------------------------------
\* Tree queries used by _hierarchical_recursive_bisection and _intra_weights
\* ---------------------------------------------------------------------------
InternalIds == NumAssets .. RootId

\* nodes[idx][::-1] with idx = np.argsort(dists): the nodes (leaves included)
\* by merge distance, highest first; among equal distances the node created
\* later comes first (the reverse of the ascending insertion order).
Before(Z, u, v) ==
    \/ NodeDist(Z, u) > NodeDist(Z, v)
    \/ NodeDist(Z, u) = NodeDist(Z, v) /\ u > v

RankedNodes(Z) ==
    [p \in 1 .. (2 * NumAssets - 1) |->
        CHOOSE v \in NodeIds :
            Cardinality({u \in NodeIds : Before(Z, u, v)}) = p - 1]

\* hr.fcluster(Z, k, criterion="maxclust"): the flat clusters of the smallest
\* threshold that leaves at most k of them; a cluster is a maximal subtree
\* whose highest merge is no higher than the threshold.
RECURSIVE MaxDistUnder(_, _)
MaxDistUnder(Z, v) ==
    IF is_leaf(v) THEN 0
    ELSE LET a == MaxDistUnder(Z, get_left(Z, v))
             b == MaxDistUnder(Z, get_right(Z, v))
             c == NodeDist(Z, v)
         IN  IF a >= b /\ a >= c THEN a ELSE IF b >= c THEN b ELSE c

ParentOf(Z, v) ==
    CHOOSE p \in InternalIds : get_left(Z, p) = v \/ get_right(Z, p) = v

NumFlat(Z, t) == 1 + Cardinality({v \in InternalIds : MaxDistUnder(Z, v) > t})

MaxclustThreshold(Z, k) ==
    LET cand == {MaxDistUnder(Z, v) : v \in InternalIds} \cup {0 - 1}
        ok == {t \in cand : NumFlat(Z, t) <= k}
    IN  CHOOSE t \in ok : \A u \in ok : t <= u

InFlat(Z, v, t) == is_leaf(v) \/ MaxDistUnder(Z, v) <= t

fcluster(Z, k) ==
    LET t == MaxclustThreshold(Z, k)
    IN  {LeafSet(Z, v) : v \in {u \in NodeIds :
            /\ InFlat(Z, u, t)
            /\ (u = RootId \/ ~InFlat(Z, ParentOf(Z, u), t))}}

\* hr.cut_tree(Z, n_clusters=k): the internal nodes in the order of
\* _order_cluster_tree (breadth first from the root, right child before left,
\* each inserted by bisect.insort_left on its distance), merged one after the
\* other until n - k merges are done; the result labels every asset.
InsortLeft(Z, nodes, v) ==
    LET p == Cardinality({i \in 1 .. Len(nodes) : NodeDist(Z, nodes[i]) < NodeDist(Z, v)})
    IN  SubSeq(nodes, 1, p) \o <<v>> \o SubSeq(nodes, p + 1, Len(nodes))

RECURSIVE OrderClusterTree(_, _, _)
OrderClusterTree(Z, q, nodes) ==
    IF q = <<>> THEN nodes
    ELSE LET v == Head(q)
         IN  IF is_leaf(v) THEN OrderClusterTree(Z, Tail(q), nodes)
             ELSE OrderClusterTree(Z,
                      Tail(q) \o <<get_right(Z, v), get_left(Z, v)>>,
                      InsortLeft(Z, nodes, v))

SetMin(S) == CHOOSE x \in S : \A y \in S : x <= y
SetMax(S) == CHOOSE x \in S : \A y \in S : x >= y

MergeGroup(Z, last_group, v) ==
    LET idx == LeafSet(Z, v)
        lo == SetMin({last_group[a] : a \in idx})
        hi == SetMax({last_group[a] : a \in idx})
        g1 == [a \in Assets |-> IF a \in idx THEN lo ELSE last_group[a]]
    IN  [a \in Assets |-> IF g1[a] > hi THEN g1[a] - 1 ELSE g1[a]]

RECURSIVE CutAfter(_, _, _, _)
CutAfter(Z, nodes, m, group) ==
    IF m = 0 \/ nodes = <<>> THEN group
    ELSE CutAfter(Z, Tail(nodes), m - 1, MergeGroup(Z, group, Head(nodes)))

cut_tree(Z, k) ==
    CutAfter(Z, OrderClusterTree(Z, <<RootId>>, <<>>), NumAssets - k,
             [a \in Assets |-> a])

\* a slip: the last leaf is left out
leaves_list_without_last(Z) == SubSeq(pre_order(Z, RootId), 1, NumAssets - 1)

\* hr.leaves_list(Z): the leaves from left to right
leaves_list(Z) == pre_order(Z, RootId)

\* ---------------------------------------------------------------------------
\* Risk of a sub-portfolio and the naive risk allocator
\* ---------------------------------------------------------------------------
\* An optional value: <<>> is None, <<x>> is x.
None == <<>>
Some(x) == <<x>>
IsNone(o) == o = <<>>
Val(o) == o[1]

\* a slip: the entries of cov over S are added up without the weights
VarianceUnweighted(S, w, cov) ==
    LET s == SortedSeq(S)
        n == Len(s)
    IN  RSumSeq([p \in 1 .. (n * n) |->
            R(cov[s[((p - 1) \div n) + 1]][s[((p - 1) % n) + 1]])])

\* w' cov w over the assets of S: np.power(Sharpe_Risk(rm="MV"), 2)
Variance(S, w, cov) ==
    LET s == SortedSeq(S)
        n == Len(s)
    IN  RSumSeq([p \in 1 .. (n * n) |->
            LET a == s[((p - 1) \div n) + 1]
                b == s[((p - 1) % n) + 1]
            IN  RMul(RMul(w[a], w[b]), R(cov[a][b]))])

\* rk.Sharpe_Risk for a measure other than MV: the external risk function,
\* here a positive measure that is additive over the positions (rho[a] is the
\* stand-alone risk of asset a).
Sharpe_Risk(S, w, rho) ==
    LET s == SortedSeq(S)
    IN  RSumSeq([p \in 1 .. Len(s) |-> RMul(w[s[p]], R(rho[s[p]]))])

\* the risk of side S under weights w as the bisections use it: the measure,
\* squared when rm is MV
SideRisk(S, w, cov, rho, rm) ==
    IF rm = "MV" THEN Variance(S, w, cov) ELSE Sharpe_Risk(S, w, rho)

\* the assets of S on whose unit portfolio _naive_risk calls rk.Sharpe_Risk
\* (the loop of the else branch)
_naive_risk_evaluations(S, rm) == IF rm = "equal" THEN {} ELSE S

\* a slip: the selector `equal` is not singled out
_naive_risk_inverse_only(S, cov, rho, rm) ==
    LET inv_risk == [a \in S |->
            IF rm = "MV" THEN RDiv(ROne, R(cov[a][a])) ELSE RDiv(ROne, R(rho[a]))]
        tot == RSumOver(inv_risk, S)
    IN  [a \in S |-> RMul(inv_risk[a], RDiv(ROne, tot))]

\* _naive_risk: equal weights, or the normalised inverse of every asset's
\* stand-alone risk (of its square for MV)
_naive_risk(S, cov, rho, rm) ==
    IF rm = "equal" THEN [a \in S |-> <<1, Cardinality(S)>>]
    ELSE LET inv_risk == [a \in S |->
                 IF rm = "MV" THEN RDiv(ROne, R(cov[a][a]))
                 ELSE RDiv(ROne, R(rho[a]))]
             tot == RSumOver(inv_risk, S)
         IN  [a \in S |-> RMul(inv_risk[a], RDiv(ROne, tot))]

\* ---------------------------------------------------------------------------
\* _recursive_bisection (HRP): one generation of the worklist loop
\* ---------------------------------------------------------------------------
\* a slip: the split point is rounded up, the left half gets the extra element
RECURSIVE SplitItemsLeftLarger(_)
SplitItemsLeftLarger(items) ==
    IF items = <<>> THEN <<>>
    ELSE LET i == Head(items)
             h == (Len(i) + 1) \div 2
         IN  (IF Len(i) > 1
              THEN <<SubSeq(i, 1, h), SubSeq(i, h + 1, Len(i))>>
              ELSE <<>>) \o SplitItemsLeftLarger(Tail(items))

\* a slip: the ranges of length 1 stay in the worklist
RECURSIVE SplitItemsKeepsSingles(_)
SplitItemsKeepsSingles(items) ==
    IF items = <<>> THEN <<>>
    ELSE LET i == Head(items)
             h == Len(i) \div 2
         IN  (IF Len(i) > 1
              THEN <<SubSeq(i, 1, h), SubSeq(i, h + 1, Len(i))>>
              ELSE <<i>>) \o SplitItemsKeepsSingles(Tail(items))

\* a slip: the right half is read from the end of the range backwards
RECURSIVE SplitItemsRightReversed(_)
SplitItemsRightReversed(items) ==
    IF items = <<>> THEN <<>>
    ELSE LET i == Head(items)
             h == Len(i) \div 2
         IN  (IF Len(i) > 1
              THEN <<SubSeq(i, 1, h), [p \in 1 .. (Len(i) - h) |-> i[Len(i) + 1 - p]]>>
              ELSE <<>>) \o SplitItemsRightReversed(Tail(items))

\* the comprehension that splits every range longer than 1 at len // 2
RECURSIVE SplitItems(_)
SplitItems(items) ==
    IF items = <<>> THEN <<>>
    ELSE LET i == Head(items)
             h == Len(i) \div 2
         IN  (IF Len(i) > 1
              THEN <<SubSeq(i, 1, h), SubSeq(i, h + 1, Len(i))>>
              ELSE <<>>) \o SplitItems(Tail(items))

\* a slip: the left side's own share of the risk, without the "1 -"
Alpha1LeftShare(left_risk, right_risk) ==
    RDiv(left_risk, RAdd(left_risk, right_risk))

\* alpha_1 = 1 - left_risk / (left_risk + right_risk)
Alpha1(left_risk, right_risk) ==
    RSub(ROne, RDiv(left_risk, RAdd(left_risk, right_risk)))

\* a slip: both sides are multiplied by alpha_1
ScaleSidesSameFactor(weights, left, right, alpha_1) ==
    [a \in Assets |->
        IF a \in left \cup right THEN RMul(weights[a], alpha_1) ELSE weights[a]]

\* weights.iloc[left] *= alpha_1; weights.iloc[right] *= 1 - alpha_1
ScaleSides(weights, left, right, alpha_1) ==
    LET w1 == [a \in Assets |->
                 IF a \in left THEN RMul(weights[a], alpha_1) ELSE weights[a]]
    IN  [a \in Assets |->
            IF a \in right THEN RMul(w1[a], RSub(ROne, alpha_1)) ELSE w1[a]]

\* the for loop over the pairs (items[i], items[i + 1]) of one generation
RECURSIVE WeighPairs(_, _, _, _, _)
WeighPairs(items, weights, cov, rho, rm) ==
    IF Len(items) < 2 THEN weights
    ELSE LET left == Range(items[1])
             right == Range(items[2])
             left_risk == SideRisk(left, _naive_risk(left, cov, rho, rm), cov, rho, rm)
             right_risk == SideRisk(right, _naive_risk(right, cov, rho, rm), cov, rho, rm)
         IN  WeighPairs(SubSeq(items, 3, Len(items)),
                        ScaleSides(weights, left, right, Alpha1(left_risk, right_risk)),
                        cov, rho, rm)

\* ---------------------------------------------------------------------------
\* _hierarchical_recursive_bisection (HERC / HERC2)
\* ---------------------------------------------------------------------------
\* the clusters of `clusters` that lie inside the leaf set `side`, skipping
\* those already taken by the left side (the elif)
ClustersIn(clusters, side) == {c \in clusters : c \subseteq side}

TotalRisk(cs, cov, rho, rm) ==
    LET s == SortedSeq({SetMin(c) : c \in cs})
    IN  RSumSeq([p \in 1 .. Len(s) |->
            LET c == CHOOSE d \in cs : SetMin(d) = s[p]
            IN  SideRisk(c, _naive_risk(c, cov, rho, rm), cov, rho, rm)])

\* the body of the loop for one ranked node v: the new weights, or an error
HercNode(Z, v, clusters, weights, cov, rho, rm) ==
    IF is_leaf(v) THEN [err |-> "", weights |-> weights]
    ELSE IF rm = "equal" THEN [err |-> "", weights |-> weights]
    ELSE LET left == LeafSet(Z, get_left(Z, v))
             right == LeafSet(Z, get_right(Z, v))
             lcs == ClustersIn(clusters, left)
             rcs == ClustersIn(clusters, right) \ lcs
         IN  IF lcs = {} /\ rcs = {}
             THEN [err |-> "ZeroDivisionError", weights |-> weights]
             ELSE [err |-> "",
                   weights |-> ScaleSides(weights, left, right,
                                   Alpha1(TotalRisk(lcs, cov, rho, rm),
                                          TotalRisk(rcs, cov, rho, rm)))]

\* a slip: the final pass weighs every cluster equally, whatever the model
HercClusterAlwaysEqual(labels, i, weights, cov, rho, rm, model) ==
    LET cluster == {a \in Assets : labels[a] = i}
        cluster_weights == _naive_risk(cluster, cov, rho, "equal")
    IN  [a \in Assets |->
            IF a \in cluster THEN RMul(weights[a], cluster_weights[a]) ELSE weights[a]]

\* a slip: the final pass uses the selected risk measure, whatever the model
HercClusterByMeasure(labels, i, weights, cov, rho, rm, model) ==
    LET cluster == {a \in Assets : labels[a] = i}
        cluster_weights == _naive_risk(cluster, cov, rho, rm)
    IN  [a \in Assets |->
            IF a \in cluster THEN RMul(weights[a], cluster_weights[a]) ELSE weights[a]]

\* the final pass for cluster label i of cut_tree
HercCluster(labels, i, weights, cov, rho, rm, model) ==
    LET cluster == {a \in Assets : labels[a] = i}
        cluster_weights ==
            _naive_risk(cluster, cov, rho, IF model = "HERC" THEN rm ELSE "equal")
    IN  [a \in Assets |->
            IF a \in cluster THEN RMul(weights[a], cluster_weights[a]) ELSE weights[a]]

\* ---------------------------------------------------------------------------
\* _opt_w / _intra_weights / _inter_weights (NCO)
\* ---------------------------------------------------------------------------
Objectives == {"MinRisk", "Utility", "Sharpe", "ERC"}

\* rp.Portfolio(...).optimization / rp_optimization: the external convex
\* optimizer. Its answer is the caller's environment's: the inverse-variance
\* point of the simplex for the variances var it is given, or, when the
\* environment names a solution q, the point of the simplex proportional to
\* q on the columns S (the uniform point where q is zero on all of S)
ConvexOptimize(S, var) ==
    IF IsNone(env.solution)
    THEN LET inv == [a \in S |-> RDiv(ROne, var[a])]
             tot == RSumOver(inv, S)
         IN  [a \in S |-> RDiv(inv[a], tot)]
    ELSE LET q == Val(env.solution)
             tot == RSumOver([a \in S |-> R(q[a])], S)
         IN  IF tot = RZero THEN [a \in S |-> RDiv(ROne, R(Cardinality(S)))]
             ELSE [a \in S |-> RDiv(R(q[a]), tot)]

\* _opt_w on the columns S: the weights, the error of a missing branch, or
\* the error of an optimizer that fails on these columns (it raises, or it
\* returns None and .to_numpy() raises); nothing catches either
_opt_w_any_objective(S, var, obj) ==
    IF Cardinality(S) = 1 THEN [err |-> "", weights |-> [a \in S |-> ROne]]
    ELSE [err |-> "", weights |-> ConvexOptimize(S, var)]

\* a slip: a failure of the optimizer is caught and equal weights are used
_opt_w_with_fallback(S, var, obj) ==
    IF Cardinality(S) = 1 THEN [err |-> "", weights |-> [a \in S |-> ROne]]
    ELSE IF obj \in Objectives /\ S \in env.opt_fail
         THEN [err |-> "", weights |-> [a \in S |-> RDiv(ROne, R(Cardinality(S)))]]
    ELSE IF obj \in Objectives
         THEN [err |-> "", weights |-> ConvexOptimize(S, var)]
    ELSE [err |-> "UnboundLocalError", weights |-> [a \in S |-> RZero]]

_opt_w(S, var, obj) ==
    IF Cardinality(S) = 1 THEN [err |-> "", weights |-> [a \in S |-> ROne]]
    ELSE IF obj \in Objectives /\ S \in env.opt_fail
         THEN [err |-> "OptimizerError", weights |-> [a \in S |-> RZero]]
    ELSE IF obj \in {"MinRisk", "Utility", "Sharpe"}
         THEN [err |-> "", weights |-> ConvexOptimize(S, var)]
    ELSE IF obj \in {"ERC"}
         THEN [err |-> "", weights |-> ConvexOptimize(S, var)]
    ELSE [err |-> "UnboundLocalError", weights |-> [a \in S |-> RZero]]

\* one column of the intra-cluster table: _opt_w on the members of cluster i,
\* 0 for every other asset (fillna(0))
IntraColumn(labels, i, cov, obj) ==
    LET cluster == {a \in Assets : labels[a] = i}
        r == _opt_w(cluster, [a \in cluster |-> R(cov[a][a])], obj)
    IN  [err |-> r.err,
         weights |-> [a \in Assets |-> IF a \in cluster THEN r.weights[a] ELSE RZero]]

\* a slip: the intra-cluster columns are added up without the inter-cluster
\* weights
InterWeightsUnweighted(intra, k, cov, obj) ==
    [err |-> "",
     weights |-> [a \in Assets |-> RSumSeq([p \in 1 .. k |-> intra[p - 1][a]])]]

\* _inter_weights: the optimizer on the synthetic cluster assets (their
\* variances are the diagonal of W' cov W), then the row sums of intra * inter
InterWeights(intra, k, cov, obj) ==
    LET cols == 0 .. (k - 1)
        tot_var == [c \in cols |-> Variance(Assets, intra[c], cov)]
        r == _opt_w(cols, tot_var, obj)
    IN  [err |-> r.err,
         weights |-> [a \in Assets |->
             RSumSeq([p \in 1 .. k |-> RMul(intra[p - 1][a], r.weights[p - 1])])]]

\* ---------------------------------------------------------------------------
\* The state: the HCPortfolio objects, the frames of their optimization()
\* calls and the data of the caller (the returns table as its estimators see it)
\* ---------------------------------------------------------------------------
vars == <<objs, fr, env, ncalls>>

Frames == DOMAIN fr
max_iter == 100

CorrMetrics == {"pearson", "spearman", "kendall", "gerber1", "gerber2", "custom_cov"}
AbsMetrics == {"abs_pearson", "abs_spearman", "abs_kendall", "distance"}

NoArgs ==
    [model |-> "", codependence |-> "", obj |-> "", rm |-> "", method_cov |-> "",
     custom_cov |-> "None", opt_k_method |-> "", k |-> None]

\* a frame of optimization() on object o, before any call
IdleFrame(o) ==
    [obj |-> o, pc |-> "idle", args |-> NoArgs, codependence |-> "", opt_k_method |-> "",
     k |-> None, dist |-> None, clustering |-> None, Z |-> None,
     upper_bound |-> None, lower_bound |-> None, weights |-> None, alloc |-> None,
     items |-> <<>>, nodes |-> <<>>, clusters |-> {}, labels |-> None, idx |-> 0,
     intra |-> None, j |-> 0, ret |-> None, err |-> "", trace |-> <<>>]

\* __init__: every derived field is None; w_max and w_min are the caller's
NewObject(w_max, w_min) ==
    [cov |-> None, mu |-> None, codep |-> None, clustering |-> None, k |-> None,
     sort_order |-> None, codependence |-> "", opt_k_method |-> "",
     w_max |-> w_max, w_min |-> w_min]

Diag(v, c) == [a \in Assets |-> [b \in Assets |-> IF a = b THEN v[a] ELSE c]]

\* raise: the call ends with an error and no result
Raise(F, kind) == [F EXCEPT !.pc = "raised", !.err = kind]
\* the frame moves to the next stage, which is recorded as having run
Enter(F, stage, pc) == [F EXCEPT !.pc = pc, !.trace = Append(F.trace, stage)]

Step(f, F, obj) ==
    /\ fr' = [fr EXCEPT ![f] = F]
    /\ objs' = [objs EXCEPT ![F.obj] = obj]
    /\ UNCHANGED <<env, ncalls>>

\* optimization(...) is called with arguments a
Call(f, a) ==
    /\ fr[f].pc \in {"idle", "returned", "raised"}
    /\ ncalls < MaxCalls
    /\ fr' = [fr EXCEPT ![f] = [IdleFrame(fr[f].obj) EXCEPT !.pc = "cov", !.args = a]]
    /\ ncalls' = ncalls + 1
    /\ UNCHANGED <<objs, env>>

\* lines 924-954: covariance matrix and mean vector
CovStage(f) ==
    LET F == fr[f]
        self == objs[F.obj]
        a == F.args
    IN  /\ F.pc = "cov"
        /\ IF a.method_cov = "custom_cov"
           THEN IF a.custom_cov = "DataFrame"
                THEN Step(f, Enter(F, "cov", "codep"),
                          [self EXCEPT !.cov = Some(env.custom_cov), !.mu = Some("hist")])
                ELSE IF a.custom_cov = "NotSquare"
                THEN Step(f, Raise(F, "NameError"), self)
                ELSE Step(f, Enter(F, "cov", "codep"), [self EXCEPT !.mu = Some("hist")])
           ELSE Step(f, Enter(F, "cov", "codep"),
                     [self EXCEPT !.cov = Some(env.cov), !.mu = Some("hist")])

\* lines 956-990: the arguments are stored on the object, then the
\* codependence matrix is computed for a metric one of the branches names
CodepStage(f) ==
    LET F == fr[f]
        self == objs[F.obj]
        a == F.args
        s1 == [self EXCEPT !.codependence = a.codependence,
                           !.opt_k_method = a.opt_k_method, !.k = a.k]
    IN  /\ F.pc = "codep"
        /\ IF s1.codependence \in
                 (CorrMetrics \ {"custom_cov"}) \cup AbsMetrics \cup {"mutual_info", "tail"}
           THEN Step(f, Enter(F, "codependence", "dist"),
                     [s1 EXCEPT !.codep = Some(s1.codependence)])
           ELSE IF s1.codependence \in {"custom_cov"}
           THEN IF a.custom_cov = "DataFrame"
                THEN Step(f, Enter(F, "codependence", "dist"),
                          [s1 EXCEPT !.codep = Some("custom_cov")])
                ELSE Step(f, Raise(F, "AttributeError"), s1)
           ELSE Step(f, Enter(F, "codependence", "dist"), s1)

\* a distance that treats every other name as a correlation metric
DistanceFormulaDefaultsToCorr(codependence) ==
    IF codependence \in AbsMetrics THEN "sqrt(1-C)"
    ELSE IF codependence \in {"mutual_info"} THEN "var_info"
    ELSE IF codependence \in {"tail"} THEN "-log(C)"
    ELSE "sqrt((1-C)/2)"

\* lines 306-321 of _hierarchical_clustering: the distance formula of the
\* metric, "" when no branch assigns dist
DistanceFormula(codependence) ==
    IF codependence \in CorrMetrics THEN "sqrt((1-C)/2)"
    ELSE IF codependence \in AbsMetrics THEN "sqrt(1-C)"
    ELSE IF codependence \in {"mutual_info"} THEN "var_info"
    ELSE IF codependence \in {"tail"} THEN "-log(C)"
    ELSE ""

\* lines 993-1000 and 306-324: _hierarchical_clustering is entered with the
\* object's codependence, opt_k_method and k as its parameters and computes
\* the distance matrix of the codependence matrix on the object (of the
\* returns table for mutual_info)
DistStage(f) ==
    LET F == fr[f]
        self == objs[F.obj]
        formula == DistanceFormula(self.codependence)
        F1 == [F EXCEPT !.codependence = self.codependence,
                        !.opt_k_method = self.opt_k_method, !.k = self.k]
    IN  /\ F.pc = "dist"
        /\ IF formula = ""
           THEN Step(f, Raise(F1, "UnboundLocalError"), self)
           ELSE IF formula # "var_info" /\ IsNone(self.codep)
           THEN Step(f, Raise(F1, "TypeError"), self)
           ELSE Step(f, [Enter(F1, "distance", "linkage") EXCEPT
                            !.dist = Some(<<formula,
                                IF formula = "var_info" THEN "returns"
                                ELSE Val(self.codep)>>)], self)

\* hr.linkage (or DBHT) on a distance matrix: the caller's returns table
\* decides the tree of its pearson distance matrix and of any other one
Linkage(dist) == IF dist = <<"sqrt((1-C)/2)", "pearson">> THEN env.zp ELSE env.zo

\* lines 325-345: the clustering of the distance matrix
LinkageStage(f) ==
    LET F == fr[f]
        self == objs[F.obj]
    IN  /\ F.pc = "linkage"
        /\ Step(f, [Enter(F, "clustering", "opt_k") EXCEPT
                       !.clustering = Some(Linkage(Val(F.dist)))], self)

\* a choice of k that falls back to the two-difference statistic
OptimalKDefaultsToTwodiff(model, opt_k_method, k, two_diff, std_sil) ==
    IF model \in {"HERC", "HERC2", "NCO"}
    THEN IF IsNone(k)
         THEN IF opt_k_method = "stdsil" THEN [err |-> "", k |-> Some(std_sil)]
              ELSE [err |-> "", k |-> Some(two_diff)]
         ELSE [err |-> "", k |-> k]
    ELSE [err |-> "", k |-> None]

\* lines 347-361: the number of clusters; <<err, k>>
OptimalK(model, opt_k_method, k, two_diff, std_sil) ==
    IF model \in {"HERC", "HERC2", "NCO"}
    THEN IF IsNone(k)
         THEN IF opt_k_method = "twodiff" THEN [err |-> "", k |-> Some(two_diff)]
              ELSE IF opt_k_method = "stdsil" THEN [err |-> "", k |-> Some(std_sil)]
              ELSE [err |-> "ValueError", k |-> k]
         ELSE [err |-> "", k |-> k]
    ELSE [err |-> "", k |-> None]

\* lines 347-361 and 993-1003: k is chosen, the tree and k are stored on the
\* object, and a k the caller supplied wins
OptKStage(f) ==
    LET F == fr[f]
        self == objs[F.obj]
        r == OptimalK(F.args.model, F.opt_k_method, F.k, env.two_diff, env.std_sil)
    IN  /\ F.pc = "opt_k"
        /\ IF r.err # ""
           THEN Step(f, Raise(F, r.err), self)
           ELSE Step(f, [Enter(F, "opt_k", "seriation") EXCEPT !.k = r.k],
                     [self EXCEPT !.clustering = F.clustering,
                                  !.k = IF IsNone(F.args.k) THEN r.k ELSE F.args.k])

\* lines 1005-1012: the sort order of the tree on the object
SeriationStage(f) ==
    LET F == fr[f]
        self == objs[F.obj]
    IN  /\ F.pc = "seriation"
        /\ Step(f, Enter(F, "seriation", "bounds"),
                [self EXCEPT !.sort_order = Some(leaves_list(Val(self.clustering)))])

\* lines 1015-1033: the bound vectors, clipped to [0, 1]
UpperBound(w_max) ==
    IF IsNone(w_max) THEN [a \in Assets |-> ROne]
    ELSE [a \in Assets |-> RMin(ROne, Val(w_max)[a])]

LowerBound(w_min) ==
    IF IsNone(w_min) THEN [a \in Assets |-> RZero]
    ELSE [a \in Assets |-> RMax(RZero, Val(w_min)[a])]

\* input checks without the comparison of the two bound vectors
BoundsErrorSumOnly(w_max, upper_bound, lower_bound) ==
    IF ~IsNone(w_max) /\ RLt(RSumOver(upper_bound, Assets), ROne) THEN "NameError"
    ELSE ""

\* lines 1020-1036: the two input checks; "" when the bounds pass
BoundsError(w_max, upper_bound, lower_bound) ==
    IF ~IsNone(w_max) /\ RLt(RSumOver(upper_bound, Assets), ROne) THEN "NameError"
    ELSE IF ~(\A a \in Assets : RLe(lower_bound[a], upper_bound[a])) THEN "NameError"
    ELSE ""

\* lines 1014-1036
BoundsStage(f) ==
    LET F == fr[f]
        self == objs[F.obj]
        upper_bound == UpperBound(self.w_max)
        lower_bound == LowerBound(self.w_min)
    IN  /\ F.pc = "bounds"
        /\ IF BoundsError(self.w_max, upper_bound, lower_bound) # ""
           THEN Step(f, Raise(F, BoundsError(self.w_max, upper_bound, lower_bound)), self)
           ELSE Step(f, [Enter(F, "bounds", "alloc") EXCEPT
                            !.upper_bound = Some(upper_bound),
                            !.lower_bound = Some(lower_bound)], self)

\* a dispatch that sends HERC2 down the HRP branch
AllocatorHerc2AsHrp(model) ==
    IF model \in {"HRP", "HERC2"} THEN "HRP"
    ELSE IF model = "HERC" THEN "HERC"
    ELSE IF model = "NCO" THEN "NCO"
    ELSE ""

\* lines 1039-1072: the branch the model argument selects, "" when none does
Allocator(model) ==
    IF model = "HRP" THEN "HRP"
    ELSE IF model \in {"HERC", "HERC2"} THEN "HERC"
    ELSE IF model = "NCO" THEN "NCO"
    ELSE ""

Ones == [a \in Assets |-> ROne]

\* lines 1039-1072 up to the first statement of the allocator: HRP starts
\* with lines 376-377, HERC with lines 487-499, NCO with line 650; with no
\* branch taken line 1072 reads an unbound local
AllocStage(f) ==
    LET F == fr[f]
        self == objs[F.obj]
        which == Allocator(F.args.model)
    IN  /\ F.pc = "alloc"
        /\ IF which = "HRP"
           THEN Step(f, [Enter(F, "HRP", "hrp") EXCEPT
                            !.weights = Some(Ones),
                            !.items = <<Val(self.sort_order)>>], self)
           ELSE IF which \in {"HERC", "NCO"} /\ IsNone(self.k)
           THEN Step(f, Raise(Enter(F, which, "alloc"), "TypeError"), self)
           ELSE IF which = "HERC"
           THEN Step(f, [Enter(F, "HERC", "herc") EXCEPT
                            !.Z = self.clustering,
                            !.nodes = SubSeq(RankedNodes(Val(self.clustering)),
                                             1, Val(self.k) - 1),
                            !.weights = Some(Ones),
                            !.clusters = fcluster(Val(self.clustering), Val(self.k)),
                            !.idx = 1], self)
           ELSE IF which = "NCO"
           THEN Step(f, [Enter(F, "NCO", "nco") EXCEPT
                            !.Z = self.clustering,
                            !.labels = Some(cut_tree(Val(self.clustering), Val(self.k))),
                            !.intra = Some([c \in 0 .. (Val(self.k) - 1) |-> [a \in Assets |-> RZero]]),
                            !.idx = 0], self)
           ELSE Step(f, Raise(F, "UnboundLocalError"), self)

\* the allocator returns: line 1072 keeps its weights in asset order
Allocated(F) == [F EXCEPT !.pc = "project", !.alloc = F.weights]

\* lines 379-471: one generation of the HRP loop, or its exit when the
\* worklist is empty. rk.Sharpe_Risk knows no measure named "equal".
HrpGeneration(f) ==
    LET F == fr[f]
        self == objs[F.obj]
        items == SplitItems(F.items)
    IN  /\ F.pc = "hrp"
        /\ IF Len(F.items) = 0 THEN Step(f, Allocated(F), self)
           ELSE IF Len(items) > 0 /\ IsNone(self.cov)
           THEN Step(f, Raise(F, "AttributeError"), self)
           ELSE IF Len(items) > 0 /\ F.args.rm = "equal"
           THEN Step(f, Raise(F, "RiskEvaluationError"), self)
           ELSE Step(f, [F EXCEPT
                    !.items = items,
                    !.weights = Some(IF Len(items) = 0 THEN Val(F.weights)
                                     ELSE WeighPairs(items, Val(F.weights),
                                                     Val(self.cov), env.rho, F.args.rm))],
                    self)

\* lines 502-610: the loop body for the next ranked node, or lines 612-615
\* (cut_tree) when the k - 1 nodes are done
HercNodeStep(f) ==
    LET F == fr[f]
        self == objs[F.obj]
    IN  /\ F.pc = "herc"
        /\ IF F.idx > Len(F.nodes) /\ IsNone(self.k)
           THEN Step(f, Raise(F, "TypeError"), self)
           ELSE IF F.idx > Len(F.nodes)
           THEN Step(f, [F EXCEPT !.pc = "herc_final", !.idx = 0,
                                  !.k = self.k,
                                  !.labels = Some(cut_tree(Val(F.Z), Val(self.k)))], self)
           ELSE IF IsNone(self.cov) /\ ~is_leaf(F.nodes[F.idx]) /\ F.args.rm # "equal"
           THEN Step(f, Raise(F, "AttributeError"), self)
           ELSE LET r == HercNode(Val(F.Z), F.nodes[F.idx], F.clusters, Val(F.weights),
                                  Val(self.cov), env.rho, F.args.rm)
                IN  IF r.err # "" THEN Step(f, Raise(F, r.err), self)
                    ELSE Step(f, [F EXCEPT !.weights = Some(r.weights),
                                           !.idx = F.idx + 1], self)

\* lines 617-638: the final pass for the next cluster, or the return
HercFinalStep(f) ==
    LET F == fr[f]
        self == objs[F.obj]
    IN  /\ F.pc = "herc_final"
        /\ IF F.idx >= Val(F.k) THEN Step(f, Allocated(F), self)
           ELSE IF IsNone(self.cov) THEN Step(f, Raise(F, "AttributeError"), self)
           ELSE Step(f, [F EXCEPT
                    !.weights = Some(HercCluster(Val(F.labels), F.idx, Val(F.weights),
                                         Val(self.cov), env.rho, F.args.rm, F.args.model)),
                    !.idx = F.idx + 1], self)

\* lines 656-680 (one cluster of _intra_weights) and, after the last one,
\* lines 682-714 (_inter_weights)
NcoStep(f) ==
    LET F == fr[f]
        self == objs[F.obj]
        k == Cardinality(DOMAIN Val(F.intra))
    IN  /\ F.pc = "nco"
        /\ IF IsNone(self.cov) THEN Step(f, Raise(F, "AttributeError"), self)
           ELSE IF F.idx < k
           THEN LET r == IntraColumn(Val(F.labels), F.idx, Val(self.cov), F.args.obj)
                IN  IF r.err # "" THEN Step(f, Raise(F, r.err), self)
                    ELSE Step(f, [F EXCEPT
                             !.intra = Some([Val(F.intra) EXCEPT ![F.idx] = r.weights]),
                             !.idx = F.idx + 1], self)
           ELSE LET r == InterWeights(Val(F.intra), k, Val(self.cov), F.args.obj)
                IN  IF r.err # "" THEN Step(f, Raise(F, r.err), self)
                    ELSE Step(f, Allocated([F EXCEPT !.weights = Some(r.weights)]), self)

\* ---------------------------------------------------------------------------
\* Step 4 of optimization(): the bound projection
\* ---------------------------------------------------------------------------
\* (upper_bound < weights).any() or (lower_bound > weights).any()
Violates(weights, upper_bound, lower_bound) ==
    \E a \in Assets : RLt(upper_bound[a], weights[a]) \/ RLt(weights[a], lower_bound[a])

\* a round that clips and gives the clipped excess to nobody
ProjectOnceClipOnly(weights_original, upper_bound, lower_bound) ==
    [a \in Assets |-> RMax(RMin(weights_original[a], upper_bound[a]), lower_bound[a])]

\* a slip: delta is shared equally among the assets inside their bounds
ProjectOnceEqualShares(weights_original, upper_bound, lower_bound) ==
    LET weights == [a \in Assets |->
            RMax(RMin(weights_original[a], upper_bound[a]), lower_bound[a])]
        tickers_mod == {a \in Assets :
            RLt(weights[a], upper_bound[a]) /\ RLt(lower_bound[a], weights[a])}
        delta == RAdd(
            RSumOver([a \in Assets |->
                RMax(RSub(weights_original[a], upper_bound[a]), RZero)], Assets),
            RSumOver([a \in Assets |->
                RMin(RSub(weights_original[a], lower_bound[a]), RZero)], Assets))
    IN  [a \in Assets |->
            IF a \in tickers_mod
            THEN RAdd(weights[a], RDiv(delta, R(Cardinality(tickers_mod))))
            ELSE weights[a]]

\* a slip: delta is the excess above the upper bounds only
ProjectOnceAddsOnly(weights_original, upper_bound, lower_bound) ==
    LET weights == [a \in Assets |->
            RMax(RMin(weights_original[a], upper_bound[a]), lower_bound[a])]
        tickers_mod == {a \in Assets :
            RLt(weights[a], upper_bound[a]) /\ RLt(lower_bound[a], weights[a])}
        delta == RSumOver([a \in Assets |->
            RMax(RSub(weights_original[a], upper_bound[a]), RZero)], Assets)
        tot == RSumOver(weights, tickers_mod)
    IN  IF delta # RZero
        THEN [a \in Assets |->
                IF a \in tickers_mod
                THEN RAdd(weights[a], RDiv(RMul(delta, weights[a]), tot))
                ELSE weights[a]]
        ELSE weights

\* lines 1082-1095: one round, clip then redistribute delta
ProjectOnce(weights_original, upper_bound, lower_bound) ==
    LET weights == [a \in Assets |->
            RMax(RMin(weights_original[a], upper_bound[a]), lower_bound[a])]
        tickers_mod == {a \in Assets :
            RLt(weights[a], upper_bound[a]) /\ RLt(lower_bound[a], weights[a])}
        weights_add == RSumOver([a \in Assets |->
            RMax(RSub(weights_original[a], upper_bound[a]), RZero)], Assets)
        weights_sub == RSumOver([a \in Assets |->
            RMin(RSub(weights_original[a], lower_bound[a]), RZero)], Assets)
        delta == RAdd(weights_add, weights_sub)
        tot == RSumOver(weights, tickers_mod)
    IN  IF delta # RZero
        THEN [a \in Assets |->
                IF a \in tickers_mod
                THEN RAdd(weights[a], RDiv(RMul(delta, weights[a]), tot))
                ELSE weights[a]]
        ELSE weights

\* a projection that rescales the weights to sum to 1 before it returns them
ProjectStageRescales(f) ==
    LET F == fr[f]
        self == objs[F.obj]
        total == RSumOver(Val(F.weights), Assets)
    IN  /\ F.pc = "project"
        /\ Step(f, [Enter(F, "projection", "return") EXCEPT
                       !.weights = Some([a \in Assets |-> RDiv(Val(F.weights)[a], total)])],
                self)

\* line 1075: the projection is entered only when a weight violates a bound
ProjectStage(f) ==
    LET F == fr[f]
        self == objs[F.obj]
    IN  /\ F.pc = "project"
        /\ IF Violates(Val(F.weights), Val(F.upper_bound), Val(F.lower_bound))
           THEN Step(f, [Enter(F, "projection", "round") EXCEPT !.j = 0], self)
           ELSE Step(f, Enter(F, "projection", "return"), self)

\* a round that fails when it has a delta and no asset to give it to
ProjectRoundFailsOnEmptyPool(f) ==
    LET F == fr[f]
        self == objs[F.obj]
        w == Val(F.weights)
        ub == Val(F.upper_bound)
        lb == Val(F.lower_bound)
        clipped == [a \in Assets |-> RMax(RMin(w[a], ub[a]), lb[a])]
        pool == {a \in Assets : RLt(clipped[a], ub[a]) /\ RLt(lb[a], clipped[a])}
    IN  /\ F.pc = "round"
        /\ IF Violates(w, ub, lb) /\ F.j < max_iter
           THEN IF pool = {} /\ clipped # w
                THEN Step(f, Raise(F, "ZeroDivisionError"), self)
                ELSE Step(f, [F EXCEPT !.weights = Some(ProjectOnce(w, ub, lb)),
                                       !.j = F.j + 1], self)
           ELSE Step(f, [F EXCEPT !.pc = "return"], self)

\* a slip: the loop gives up after its first round
ProjectRoundOnlyOnce(f) ==
    LET F == fr[f]
        self == objs[F.obj]
    IN  /\ F.pc = "round"
        /\ IF Violates(Val(F.weights), Val(F.upper_bound), Val(F.lower_bound))
              /\ F.j < 1
           THEN Step(f, [F EXCEPT
                    !.weights = Some(ProjectOnce(Val(F.weights), Val(F.upper_bound),
                                                 Val(F.lower_bound))),
                    !.j = F.j + 1], self)
           ELSE Step(f, [F EXCEPT !.pc = "return"], self)

\* lines 1078-1097: the while test and one round of its body
ProjectRound(f) ==
    LET F == fr[f]
        self == objs[F.obj]
    IN  /\ F.pc = "round"
        /\ IF Violates(Val(F.weights), Val(F.upper_bound), Val(F.lower_bound))
              /\ F.j < max_iter
           THEN Step(f, [F EXCEPT
                    !.weights = Some(ProjectOnce(Val(F.weights), Val(F.upper_bound),
                                                 Val(F.lower_bound))),
                    !.j = F.j + 1], self)
           ELSE Step(f, [F EXCEPT !.pc = "return"], self)

\* lines 1099-1102: the weights are returned
Return(f) ==
    LET F == fr[f]
        self == objs[F.obj]
    IN  /\ F.pc = "return"
        /\ Step(f, [F EXCEPT !.pc = "returned", !.ret = F.weights], self)

\* ---------------------------------------------------------------------------
\* Callers: the inputs the specifications draw from
\* ---------------------------------------------------------------------------
Args(model, codependence, obj, rm, method_cov, custom_cov, opt_k_method, k) ==
    [model |-> model, codependence |-> codependence, obj |-> obj, rm |-> rm,
     method_cov |-> method_cov, custom_cov |-> custom_cov,
     opt_k_method |-> opt_k_method, k |-> k]

\* a returns table: its covariance estimate, the stand-alone risk of every
\* asset, the tree of its pearson distance matrix (zp) and of any other
\* distance matrix (zo), and the k its two statistics select; the external
\* optimizer answers with the inverse-variance point and never fails
Env(cov, custom_cov, rho, zp, zo, two_diff, std_sil) ==
    [cov |-> cov, custom_cov |-> custom_cov, rho |-> rho, zp |-> zp, zo |-> zo,
     two_diff |-> two_diff, std_sil |-> std_sil, solution |-> None, opt_fail |-> {}]

\* the same environment with an optimizer that answers in proportion to q
\* and fails on the column sets in fails
WithOptimizer(e, q, fails) == [e EXCEPT !.solution = Some(q), !.opt_fail = fails]

Min2(a, b) == IF a <= b THEN a ELSE b

DiagCovs == {Diag(v, 0) : v \in [Assets -> 1 .. MaxVar]}
Rhos == {[a \in Assets |-> 1], [a \in Assets |-> 1 + (a % MaxVar)]}

\* frames[f] is the object frame f calls optimization() on; every object is
\* constructed with the same w_max and w_min
InitWith(E, W, frames) ==
    /\ env \in E
    /\ \E w \in W : objs = [o \in {frames[f] : f \in DOMAIN frames} |-> NewObject(w[1], w[2])]
    /\ fr = [f \in DOMAIN frames |-> IdleFrame(frames[f])]
    /\ ncalls = 0

\* the first optimization() call on a new object
FirstCall(f, A) ==
    \E a \in A : fr[f].pc = "idle" /\ Call(f, a)

\* a later call on the same object, after the earlier one has ended
NextCall(f, A) ==
    \E a \in A : fr[f].pc \in {"returned", "raised"} /\ Call(f, a)

\* --- HRP on every tree: one call on a new object --------------------------
TreeEnvs == {Env(c, c, r, z, z, 1, 1) : c \in DiagCovs, r \in Rhos, z \in Linkages}

\* one tree for every sort order: the tree that adds the assets one by one
\* in the order p
Orders == {p \in [1 .. NumAssets -> Assets] : \A i, j \in 1 .. NumAssets : p[i] = p[j] => i = j}

ChainOf(p) ==
    [i \in 1 .. (NumAssets - 1) |->
        <<IF i = 1 THEN p[1] ELSE NumAssets + i - 2, p[i + 1], Min2(i - 1, MaxDist)>>]

OrderEnvs == {Env(c, c, r, ChainOf(p), ChainOf(p), 1, 1) : c \in DiagCovs, r \in Rhos, p \in Orders}

HrpArgs ==
    {Args("HRP", "pearson", "MinRisk", rm, "hist", "None", "twodiff", None) :
        rm \in {"MV", "CVaR"}}

InitHRP == InitWith(OrderEnvs, {<<None, None>>}, <<1>>)

Pipeline(f) ==
    \/ CovStage(f) \/ CodepStage(f) \/ DistStage(f) \/ LinkageStage(f)
    \/ OptKStage(f) \/ SeriationStage(f) \/ BoundsStage(f) \/ AllocStage(f)

NextHRP ==
    \/ FirstCall(1, HrpArgs)
    \/ Pipeline(1)
    \/ HrpGeneration(1)
    \/ ProjectStage(1) \/ Return(1)

SpecHRP == InitHRP /\ [][NextHRP]_vars

\* --- HRP when a side can have no risk --------------------------------------
\* unit variances, assets 0 and 1 perfectly negatively correlated: their
\* equal-weight portfolio has variance 0
HedgedCov ==
    [a \in Assets |-> [b \in Assets |->
        IF a = b THEN 1 ELSE IF {a, b} = {0, 1} THEN -1 ELSE 0]]

PairEnvs ==
    OrderEnvs \cup
    {Env(HedgedCov, HedgedCov, r, ChainOf(p), ChainOf(p), 1, 1) : r \in Rhos, p \in Orders}

InitPairs == InitWith(PairEnvs, {<<None, None>>}, <<1>>)

SpecPairs == InitPairs /\ [][NextHRP]_vars

\* --- HERC and HERC2 on every tree and every k: one call on a new object ---
HercArgs ==
    {Args(m, "pearson", "MinRisk", rm, "hist", "None", "twodiff", Some(k)) :
        m \in {"HERC", "HERC2"}, rm \in {"equal", "MV", "CVaR"}, k \in 1 .. NumAssets}

InitHERC == InitWith(TreeEnvs, {<<None, None>>}, <<1>>)

NextHERC ==
    \/ FirstCall(1, HercArgs)
    \/ Pipeline(1)
    \/ HercNodeStep(1) \/ HercFinalStep(1)
    \/ ProjectStage(1) \/ Return(1)

SpecHERC == InitHERC /\ [][NextHERC]_vars

\* --- HERC and HERC2 on every tree, one returns table with unequal risks ---
CutEnvs ==
    {Env(c, c, r, z, z, 1, 1) :
        c \in {Diag([a \in Assets |-> 1 + (a % MaxVar)], 0)},
        r \in {[a \in Assets |-> 1 + ((a + 1) % MaxVar)]},
        z \in Linkages}

CutArgs ==
    {Args(m, "pearson", "MinRisk", rm, "hist", "None", "twodiff", Some(k)) :
        m \in {"HERC", "HERC2"}, rm \in {"equal", "MV"}, k \in 1 .. NumAssets}

InitCut == InitWith(CutEnvs, {<<None, None>>}, <<1>>)

NextCut ==
    \/ FirstCall(1, CutArgs)
    \/ Pipeline(1)
    \/ HercNodeStep(1) \/ HercFinalStep(1)
    \/ ProjectStage(1) \/ Return(1)

SpecCut == InitCut /\ [][NextCut]_vars

\* --- HRP calls one after the other on one object, on every tree -----------
\* the returns table does not change between the calls and both distance
\* formulas give the same tree, so every call clusters to the same dendrogram
RepeatArgs ==
    {Args("HRP", c, "MinRisk", "MV", "hist", "None", "twodiff", None) :
        c \in {"pearson", "tail"}}

InitRepeat == InitWith(CutEnvs, {<<None, None>>}, <<1>>)

NextRepeat ==
    \/ FirstCall(1, RepeatArgs)
    \/ NextCall(1, RepeatArgs)
    \/ Pipeline(1)
    \/ HrpGeneration(1)
    \/ ProjectStage(1) \/ Return(1)

SpecRepeat == InitRepeat /\ [][NextRepeat]_vars

\* --- NCO on every partition, with every answer of the optimizer -----------
\* one tree for every way of merging the assets (left/right placement and
\* heights do not change the partitions cut_tree returns)
MergeTrees ==
    {z \in Linkages :
        \A i \in 1 .. (NumAssets - 1) : z[i][1] < z[i][2] /\ z[i][3] = Min2(i - 1, MaxDist)}

\* the points of the simplex with coordinates in multiples of 1 / WeightGrid
SimplexPoints ==
    {q \in [Assets -> 0 .. WeightGrid] :
        RSumOver([a \in Assets |-> R(q[a])], Assets) = R(WeightGrid)}

NcoEnvs ==
    {WithOptimizer(Env(c, c, r, z, z, 1, 1), q, {}) :
        c \in {Diag([a \in Assets |-> 1 + (a % MaxVar)], 0)},
        r \in {[a \in Assets |-> 1]},
        z \in MergeTrees, q \in SimplexPoints}

NcoArgs ==
    {Args("NCO", "pearson", obj, "MV", "hist", "None", "twodiff", Some(k)) :
        obj \in {"MinRisk", "ERC"}, k \in 1 .. NumAssets}

InitNCO == InitWith(NcoEnvs, {<<None, None>>}, <<1>>)

NextNCO ==
    \/ FirstCall(1, NcoArgs)
    \/ Pipeline(1)
    \/ NcoStep(1)
    \/ ProjectStage(1) \/ Return(1)

SpecNCO == InitNCO /\ [][NextNCO]_vars

\* --- NCO with an optimizer that fails on one set of columns ----------------
FailEnvs ==
    {[Env(c, c, r, z, z, 1, 1) EXCEPT !.opt_fail = fails] :
        c \in {Diag([a \in Assets |-> 1 + (a % MaxVar)], 0)},
        r \in {[a \in Assets |-> 1]},
        z \in MergeTrees,
        fails \in {{}} \cup {{S} : S \in {T \in SUBSET Assets : Cardinality(T) >= 2}}}

InitFail == InitWith(FailEnvs, {<<None, None>>}, <<1>>)

SpecFail == InitFail /\ [][NextNCO]_vars

\* --- every configuration: one call on a new object ------------------------
\* the tree that adds the assets one by one in index order, and the one that
\* adds them in the reverse order
Caterpillar ==
    [i \in 1 .. (NumAssets - 1) |->
        <<IF i = 1 THEN 0 ELSE NumAssets + i - 2, i, Min2(i - 1, MaxDist)>>]

ReverseCaterpillar ==
    [i \in 1 .. (NumAssets - 1) |->
        <<NumAssets - 1 - i, IF i = 1 THEN NumAssets - 1 ELSE NumAssets + i - 2,
          Min2(i - 1, MaxDist)>>]

\* one returns table: unequal variances, a custom covariance that differs
\* from the estimate, and two statistics that select n clusters and one
TheEnv ==
    Env(Diag([a \in Assets |-> 1 + (a % MaxVar)], 0), Diag([a \in Assets |-> 1], 0),
        [a \in Assets |-> 1], Caterpillar, ReverseCaterpillar, NumAssets, 1)

Const(x) == Some([a \in Assets |-> x])
First(x) == Some([a \in Assets |-> IF a = 0 THEN x ELSE RZero])

\* w_max and w_min of the constructor: absent, feasible, and infeasible
\* (upper bounds that sum below 1, a lower bound above the upper bound of
\* every asset or of one)
BoundConfigs ==
    {<<w_max, w_min>> :
        w_max \in {None, Const(<<1, NumAssets + 1>>), Const(<<1, 2>>)},
        w_min \in {None, Const(<<3, 4>>), Const(<<3, 2>>), First(<<3, 4>>)}}

CovArgs ==
    {<<"hist", "None">>, <<"custom_cov", "DataFrame">>,
     <<"custom_cov", "NotSquare">>, <<"custom_cov", "None">>}

ConfigArgs ==
    {Args(m, c, o, rm, cv[1], cv[2], okm, k) :
        m \in {"HRP", "HERC", "HERC2", "NCO", "MVO"},
        c \in {"pearson", "tail", "cosine"},
        o \in {"MinRisk", "MaxRet"},
        rm \in {"MV", "equal"},
        cv \in CovArgs,
        okm \in {"twodiff", "stdsil", "elbow"},
        k \in {None, Some(2)}}

Init == InitWith({TheEnv}, BoundConfigs, <<1>>)

Allocators(f) ==
    \/ HrpGeneration(f) \/ HercNodeStep(f) \/ HercFinalStep(f) \/ NcoStep(f)

Projection(f) ==
    \/ ProjectStage(f) \/ ProjectRound(f) \/ Return(f)

Next ==
    \/ FirstCall(1, ConfigArgs)
    \/ Pipeline(1)
    \/ Allocators(1)
    \/ Projection(1)

Spec == Init /\ [][Next]_vars

\* --- calls on one object, each beside the same call on a new object -------
\* frame f + 2 holds the reference of frame f: the same call, alone on an
\* object of its own
IsReference(g) == (g - 2) \in Frames
HasReference(f) == (f + 2) \in Frames
Ended(f) == fr[f].pc \in {"idle", "returned", "raised"}
ReferencesQuiet == \A g \in Frames : IsReference(g) => Ended(g)

\* optimization(a) is called in frame f, and on a newly constructed object
\* with the same w_max and w_min in frame f + 2
CallWithReference(f, a) ==
    /\ Ended(f) /\ ReferencesQuiet
    /\ ncalls < MaxCalls
    /\ fr' = [fr EXCEPT
                ![f] = [IdleFrame(fr[f].obj) EXCEPT !.pc = "cov", !.args = a],
                ![f + 2] = [IdleFrame(fr[f + 2].obj) EXCEPT !.pc = "cov", !.args = a]]
    /\ objs' = [objs EXCEPT ![fr[f + 2].obj] =
                   NewObject(objs[fr[f].obj].w_max, objs[fr[f].obj].w_min)]
    /\ ncalls' = ncalls + 1
    /\ UNCHANGED env

\* a reference runs to its end before the calls on the shared object go on
Scheduled(f) == IsReference(f) \/ ReferencesQuiet

\* calls one after the other on one object
SeqArgs ==
    {Args(m, c, "MinRisk", "MV", cv[1], cv[2], "twodiff", Some(2)) :
        m \in {"HRP", "HERC"},
        c \in {"pearson", "tail", "cosine"},
        cv \in {<<"hist", "None">>, <<"custom_cov", "DataFrame">>, <<"custom_cov", "None">>}}

InitCalls == InitWith({TheEnv}, {<<None, None>>}, (1 :> 1 @@ 3 :> 2))

NextCalls ==
    \/ \E a \in SeqArgs : CallWithReference(1, a)
    \/ \E f \in Frames :
          /\ Scheduled(f)
          /\ \/ Pipeline(f)
             \/ HrpGeneration(f) \/ HercNodeStep(f) \/ HercFinalStep(f)
             \/ ProjectStage(f) \/ Return(f)

SpecCalls == InitCalls /\ [][NextCalls]_vars

\* two calls on one object whose stages interleave
ConcArgs ==
    {Args("HERC", "pearson", "MinRisk", "MV", cv[1], cv[2], "twodiff", Some(k)) :
        k \in {2, NumAssets},
        cv \in {<<"hist", "None">>, <<"custom_cov", "DataFrame">>}}

InitConc == InitWith({TheEnv}, {<<None, None>>}, <<1, 1, 2, 3>>)

NextConc ==
    \/ \E f \in {1, 2}, a \in ConcArgs : fr[f].pc = "idle" /\ CallWithReference(f, a)
    \/ \E f \in Frames :
          /\ Scheduled(f)
          /\ \/ Pipeline(f)
             \/ HercNodeStep(f) \/ HercFinalStep(f)
             \/ ProjectStage(f) \/ Return(f)

SpecConc == InitConc /\ [][NextConc]_vars

\* --- the bound projection on every allocator output of a grid -------------
\* NCO with one cluster per asset returns the optimizer's answer for the n
\* cluster-assets as it is: every point q / WeightGrid of the simplex
ProjectEnvs == {WithOptimizer(TheEnv, q, {}) : q \in SimplexPoints}

\* per-asset upper bounds with no lower bound, a lower bound on one asset, or
\* the same lower bound on all (infeasible: they sum above 1); only the
\* bounds that pass the input checks
ProjectBounds ==
    {w \in {<<Some(u), l>> :
                u \in [Assets -> {<<1, 4>>, <<1, 2>>, <<1, 1>>}],
                l \in {None, First(<<1, 4>>), Const(<<1, 2>>)}} :
        BoundsError(w[1], UpperBound(w[1]), LowerBound(w[2])) = ""}

ProjectArgs ==
    {Args("NCO", "pearson", "MinRisk", "MV", "hist", "None", "twodiff", Some(NumAssets))}

InitProject == InitWith(ProjectEnvs, ProjectBounds, <<1>>)

NextProject ==
    \/ FirstCall(1, ProjectArgs)
    \/ Pipeline(1)
    \/ NcoStep(1)
    \/ Projection(1)

SpecProject == InitProject /\ [][NextProject]_vars

\* ---------------------------------------------------------------------------
\* Claims
\* ---------------------------------------------------------------------------
SumsToOne(w) == RSumOver(w, Assets) = ROne

\* the weights an allocator has returned in frame f, before the projection
HasAllocated(f) == ~IsNone(fr[f].alloc)

\* C1: for HERC and HERC2, every tree, every k in 1 .. n and every risk
\* selector (`equal` included), the weights the tree-cut bisection returns
\* sum to 1 before the bound projection.
C1_TreeCutSumsToOne ==
    \A f \in Frames :
        (fr[f].args.model \in {"HERC", "HERC2"} /\ HasAllocated(f))
            => SumsToOne(Val(fr[f].alloc))

\* the product of the fractions alpha_1 / 1 - alpha_1 of the ranges of the
\* sort order that contain asset a, from the whole order down
RECURSIVE FractionProduct(_, _, _, _, _)
FractionProduct(range, a, cov, rho, rm) ==
    IF Len(range) <= 1 THEN ROne
    ELSE LET h == Len(range) \div 2
             left == SubSeq(range, 1, h)
             right == SubSeq(range, h + 1, Len(range))
             alpha_1 == Alpha1(
                 SideRisk(Range(left), _naive_risk(Range(left), cov, rho, rm), cov, rho, rm),
                 SideRisk(Range(right), _naive_risk(Range(right), cov, rho, rm), cov, rho, rm))
         IN  IF a \in Range(left)
             THEN RMul(alpha_1, FractionProduct(left, a, cov, rho, rm))
             ELSE RMul(RSub(ROne, alpha_1), FractionProduct(right, a, cov, rho, rm))

\* C2: for HRP, every sort order and every positive risk function, the
\* weights the recursive bisection returns sum to 1, and the weight of every
\* asset is the product of the complementary fractions of the ranges that
\* contained it.
C2_HrpSumsToOne ==
    \A f \in Frames :
        (fr[f].args.model = "HRP" /\ HasAllocated(f))
            => /\ SumsToOne(Val(fr[f].alloc))
               /\ \A a \in Assets :
                     Val(fr[f].alloc)[a] =
                         FractionProduct(Val(objs[fr[f].obj].sort_order), a,
                                         Val(objs[fr[f].obj].cov),
                                         env.rho, fr[f].args.rm)

\* an HRP call has returned weights that its splits made unequal
C2_Witness ==
    \E f \in Frames :
        /\ fr[f].args.model = "HRP"
        /\ HasAllocated(f)
        /\ \E a, b \in Assets : RLt(Val(fr[f].alloc)[a], Val(fr[f].alloc)[b])

\* the stages frame f has run, in order
Ran(f, stage) == \E i \in DOMAIN fr[f].trace : fr[f].trace[i] = stage
IsAllocator(stage) == stage \in {"HRP", "HERC", "NCO"}
LastStage(f) == IF fr[f].trace = <<>> THEN "" ELSE fr[f].trace[Len(fr[f].trace)]

\* the allocator the interface assigns to each supported model
ModelAllocator ==
    [m \in {"HRP", "HERC", "HERC2", "NCO"} |->
        IF m = "HRP" THEN "HRP" ELSE IF m = "NCO" THEN "NCO" ELSE "HERC"]

\* C3: the stages of a call run in the order codependence, distance,
\* clustering, seriation, the one allocator the model argument selects, bound
\* projection; whatever the model argument, no call has weights or returns
\* unless exactly one allocator ran, the one of its model.
C3_StagesInOrder ==
    \A f \in Frames :
        /\ (HasAllocated(f) \/ fr[f].pc = "returned")
              => /\ fr[f].args.model \in DOMAIN ModelAllocator
                 /\ SelectSeq(fr[f].trace, IsAllocator)
                        = <<ModelAllocator[fr[f].args.model]>>
        /\ fr[f].pc = "returned"
              => /\ ~IsNone(fr[f].ret)
                 /\ SelectSeq(fr[f].trace,
                        LAMBDA s : s \in {"codependence", "distance", "clustering",
                                          "seriation", "projection"} \/ IsAllocator(s))
                      = <<"codependence", "distance", "clustering", "seriation",
                          ModelAllocator[fr[f].args.model], "projection">>

\* a HERC2 call has returned weights
C3_Witness ==
    \E f \in Frames : fr[f].pc = "returned" /\ fr[f].args.model = "HERC2"

\* the bounds the caller configured, before any clipping
RawUpper(w_max) == IF IsNone(w_max) THEN [a \in Assets |-> ROne] ELSE Val(w_max)
RawLower(w_min) == IF IsNone(w_min) THEN [a \in Assets |-> RZero] ELSE Val(w_min)

InvalidBounds(o) ==
    \/ \E a \in Assets : RLt(RawUpper(o.w_max)[a], RawLower(o.w_min)[a])
    \/ RLt(RSumOver(RawUpper(o.w_max), Assets), ROne)

AllocatorPcs == {"hrp", "herc", "herc_final", "nco"}
AfterBoundsPcs == {"alloc", "project", "round", "return", "returned"} \cup AllocatorPcs

\* C6: a call on an object whose bounds have lower[i] > upper[i] for some
\* asset, or upper bounds that sum below 1, never runs an allocator and never
\* returns; when it reaches the bound creation it raises the input error.
C6_InvalidBoundsRaise ==
    \A f \in Frames :
        InvalidBounds(objs[fr[f].obj])
            => /\ fr[f].pc \notin AfterBoundsPcs
               /\ IsNone(fr[f].weights) /\ IsNone(fr[f].ret)
               /\ ~\E i \in DOMAIN fr[f].trace : IsAllocator(fr[f].trace[i])
               /\ (fr[f].pc = "raised" /\ LastStage(f) = "seriation")
                     => fr[f].err = "NameError"

\* a call raised the input error for a lower bound above one asset's upper
\* bound, with upper bounds that sum to 1 or more
C6_Witness ==
    \E f \in Frames :
        /\ fr[f].pc = "raised" /\ fr[f].err = "NameError" /\ LastStage(f) = "seriation"
        /\ ~RLt(RSumOver(RawUpper(objs[fr[f].obj].w_max), Assets), ROne)
        /\ \E a, b \in Assets :
              /\ RLt(RawUpper(objs[fr[f].obj].w_max)[a], RawLower(objs[fr[f].obj].w_min)[a])
              /\ ~RLt(RawUpper(objs[fr[f].obj].w_max)[b], RawLower(objs[fr[f].obj].w_min)[b])

AfterOptKPcs == {"seriation", "bounds"} \cup AfterBoundsPcs

\* C8 as stated: a call whose opt_k_method is neither twodiff nor stdsil
\* never gets past the choice of k and returns no weights, for every model
\* and whether or not k is supplied.
C8_UnknownOptKAlwaysRaises ==
    \A f \in Frames :
        fr[f].args.opt_k_method \notin {"twodiff", "stdsil"}
            => fr[f].pc \notin AfterOptKPcs /\ IsNone(fr[f].ret)

\* C8: a call whose opt_k_method is neither twodiff nor stdsil, whose model
\* is HERC, HERC2 or NCO and whose k is not supplied never gets past the
\* choice of k, returns no weights, and raises ValueError when it reaches it.
C8_UnknownOptKRaisesWithoutK ==
    \A f \in Frames :
        (/\ fr[f].args.opt_k_method \notin {"twodiff", "stdsil"}
         /\ fr[f].args.model \in {"HERC", "HERC2", "NCO"}
         /\ IsNone(fr[f].args.k))
            => /\ fr[f].pc \notin AfterOptKPcs
               /\ IsNone(fr[f].ret) /\ IsNone(fr[f].weights)
               /\ (fr[f].pc = "raised" /\ LastStage(f) = "clustering")
                     => fr[f].err = "ValueError"

\* a HERC call without k raised ValueError at the choice of k
C8_Witness ==
    \E f \in Frames :
        /\ fr[f].args.opt_k_method = "elbow" /\ fr[f].args.model = "HERC"
        /\ IsNone(fr[f].args.k)
        /\ fr[f].pc = "raised" /\ fr[f].err = "ValueError"
        /\ LastStage(f) = "clustering"

\* C9: an NCO call whose objective is none of MinRisk, Utility, Sharpe, ERC
\* never has allocator weights and never returns, for every partition; with a
\* covariance on the object the error it raises inside the allocator is the
\* one of the unassigned weights.
C9_NcoUnknownObjectiveRaises ==
    \A f \in Frames :
        (fr[f].args.model = "NCO" /\ fr[f].args.obj \notin Objectives)
            => /\ ~HasAllocated(f) /\ IsNone(fr[f].ret)
               /\ fr[f].pc \notin {"project", "round", "return", "returned"}
               /\ (fr[f].pc = "raised" /\ LastStage(f) = "NCO"
                      /\ ~IsNone(objs[fr[f].obj].cov))
                     => fr[f].err = "UnboundLocalError"

\* an NCO call with an unknown objective got through every cluster, each a
\* single asset, and raised at the inter-cluster step
C9_Witness ==
    \E f \in Frames :
        /\ fr[f].args.model = "NCO" /\ fr[f].args.obj \notin Objectives
        /\ fr[f].pc = "raised" /\ fr[f].err = "UnboundLocalError"
        /\ LastStage(f) = "NCO"
        /\ fr[f].idx = NumAssets

WithinBounds(w, upper_bound, lower_bound) ==
    \A a \in Assets : RLe(lower_bound[a], w[a]) /\ RLe(w[a], upper_bound[a])

\* C10: when no weight of the allocator's output is outside its bounds the
\* projection leaves every weight as it is, and with lower = 0 and upper = 1
\* for every asset the call returns the allocator's output.
C10_ProjectionKeepsFeasible ==
    \A f \in Frames :
        fr[f].pc \in {"return", "returned"}
            => /\ WithinBounds(Val(fr[f].alloc), Val(fr[f].upper_bound),
                               Val(fr[f].lower_bound))
                     => /\ fr[f].weights = fr[f].alloc
                        /\ fr[f].pc = "returned" => fr[f].ret = fr[f].alloc
               /\ (/\ \A a \in Assets : Val(fr[f].upper_bound)[a] = ROne
                   /\ \A a \in Assets : Val(fr[f].lower_bound)[a] = RZero)
                     => /\ fr[f].weights = fr[f].alloc
                        /\ fr[f].pc = "returned" => fr[f].ret = fr[f].alloc

\* a call with a configured upper bound returned unequal weights that its
\* allocator had left within the bounds
C10_Witness ==
    \E f \in Frames :
        /\ fr[f].pc = "returned"
        /\ ~IsNone(objs[fr[f].obj].w_max)
        /\ WithinBounds(Val(fr[f].alloc), Val(fr[f].upper_bound), Val(fr[f].lower_bound))
        /\ \E a, b \in Assets : Val(fr[f].ret)[a] # Val(fr[f].ret)[b]

Finished(f) == fr[f].pc \in {"returned", "raised"}

\* frame f and its reference have ended with the same weights or error
AsAlone(f) ==
    (Finished(f) /\ Finished(f + 2))
        => fr[f].ret = fr[f + 2].ret /\ fr[f].err = fr[f + 2].err

\* C4: whatever calls were made on the object before, a call ends with the
\* weights or the error that the same call gives on a new object.
C4_ResultIndependentOfEarlierCalls ==
    \A f \in Frames : HasReference(f) => AsAlone(f)

\* C5: of two calls on the same object with different arguments whose stages
\* interleave in any order, each returns what the same call returns alone.
C5_InterleavedCallsAsAlone ==
    \A f, g \in Frames :
        (/\ f # g /\ HasReference(f) /\ HasReference(g)
         /\ fr[f].obj = fr[g].obj
         /\ fr[g].pc # "idle"
         /\ fr[f].args # fr[g].args)
            => AsAlone(f)

SupportedMetrics ==
    {"pearson", "spearman", "kendall", "gerber1", "gerber2", "abs_pearson",
     "abs_spearman", "abs_kendall", "distance", "mutual_info", "tail", "custom_cov"}

\* C7: a call whose codependence name is not one of the twelve metrics never
\* computes a distance matrix or a tree, returns no weights, and raises the
\* unbound-name error when it reaches the distance stage, also on an object
\* that holds the codependence matrix of an earlier call.
C7_UnknownMetricRaises ==
    \A f \in Frames :
        (fr[f].pc # "idle" /\ fr[f].args.codependence \notin SupportedMetrics)
            => /\ fr[f].pc \notin {"linkage", "opt_k"} \cup AfterOptKPcs
               /\ IsNone(fr[f].dist) /\ IsNone(fr[f].clustering)
               /\ IsNone(fr[f].weights) /\ IsNone(fr[f].ret)
               /\ (fr[f].pc = "raised" /\ LastStage(f) = "codependence")
                     => fr[f].err = "UnboundLocalError"

\* a call with an unknown metric raised on an object that still holds the
\* codependence matrix of the call before it
C7_Witness ==
    \E f \in Frames :
        /\ HasReference(f) /\ ncalls >= 2
        /\ fr[f].args.codependence \notin SupportedMetrics
        /\ fr[f].pc = "raised" /\ fr[f].err = "UnboundLocalError"
        /\ ~IsNone(objs[fr[f].obj].codep)

\* frame f has entered the bound projection
InProjection(f) == Ran(f, "projection")

\* C11: once entered, the bound projection never raises and its round
\* counter never exceeds 100; every step of its loop either leaves the loop
\* or is one more round, so the loop ends after at most 100 rounds. This for
\* every allocator output and every bounds vector that passed validation,
\* infeasible ones and rounds with an empty redistribution pool included.
C11_ProjectionTerminates ==
    /\ [](\A f \in Frames :
            /\ fr[f].j <= max_iter
            /\ InProjection(f)
                  => fr[f].pc \in {"round", "return", "returned"} /\ fr[f].err = "")
    /\ [][\A f \in Frames :
            fr[f].pc = "round"
                => \/ fr'[f] = fr[f]
                   \/ fr'[f].pc = "return" /\ fr'[f].weights = fr[f].weights
                   \/ fr'[f].pc = "round" /\ fr'[f].j = fr[f].j + 1]_vars

\* a projection under lower bounds that sum above 1 has run two rounds and
\* returned with every weight at a bound (nothing left to redistribute to)
C11_Witness ==
    \E f \in Frames :
        /\ fr[f].pc = "returned" /\ fr[f].j >= 2
        /\ RLt(ROne, RSumOver(Val(fr[f].lower_bound), Assets))
        /\ \A a \in Assets :
              \/ Val(fr[f].ret)[a] = Val(fr[f].lower_bound)[a]
              \/ Val(fr[f].ret)[a] = Val(fr[f].upper_bound)[a]

\* frame f has returned from a projection under lower bound 0 and the same
\* upper bound for every asset, of an allocator output that sums to 1 and
\* has a weight above that bound
UniformCapCase(f) ==
    /\ fr[f].pc = "returned" /\ HasAllocated(f)
    /\ \A a \in Assets : Val(fr[f].lower_bound)[a] = RZero
    /\ \A a, b \in Assets : Val(fr[f].upper_bound)[a] = Val(fr[f].upper_bound)[b]
    /\ SumsToOne(Val(fr[f].alloc))
    /\ \E a \in Assets : RLt(Val(fr[f].upper_bound)[a], Val(fr[f].alloc)[a])

\* no weight exceeds the bound, the assets that were above it sit on it, no
\* other asset has lost weight, and the weights sum to 1
CappedAndAbsorbed(f) ==
    /\ \A a \in Assets :
          /\ RLe(Val(fr[f].ret)[a], Val(fr[f].upper_bound)[a])
          /\ RLt(Val(fr[f].upper_bound)[a], Val(fr[f].alloc)[a])
                => Val(fr[f].ret)[a] = Val(fr[f].upper_bound)[a]
          /\ RLe(Val(fr[f].alloc)[a], Val(fr[f].upper_bound)[a])
                => RLe(Val(fr[f].alloc)[a], Val(fr[f].ret)[a])
    /\ SumsToOne(Val(fr[f].ret))

\* C12 as stated: with lower bound 0, a uniform upper bound u with n * u >= 1
\* and a non-negative allocator output that sums to 1 and has a weight above
\* u, after the projection no weight exceeds u and the weights sum to 1.
C12_CapKeepsSumNonNegative ==
    \A f \in Frames :
        (UniformCapCase(f) /\ \A a \in Assets : RLe(RZero, Val(fr[f].alloc)[a]))
            => CappedAndAbsorbed(f)

\* C12: the same for an allocator output whose weights are all positive.
C12_CapKeepsSumPositive ==
    \A f \in Frames :
        (UniformCapCase(f) /\ \A a \in Assets : RLt(RZero, Val(fr[f].alloc)[a]))
            => CappedAndAbsorbed(f)

\* a positive allocator output with a weight above the uniform cap has been
\* projected in at least one round
C12_Witness ==
    \E f \in Frames :
        /\ UniformCapCase(f) /\ fr[f].j >= 1
        /\ \A a \in Assets : RLt(RZero, Val(fr[f].alloc)[a])

\* the risk the bisection evaluates on the range `side`: the measure of the
\* side under its own naive risk weights
RangeRisk(f, side) ==
    LET cov == Val(objs[fr[f].obj].cov)
    IN  SideRisk(Range(side), _naive_risk(Range(side), cov, env.rho, fr[f].args.rm),
                 cov, env.rho, fr[f].args.rm)

\* C13: in HRP, at every left/right pair of every generation whose side
\* risks are non-negative and not both zero, alpha = 1 - risk_left /
\* (risk_left + risk_right) lies in [0, 1], the weights of the left range are
\* multiplied by alpha and those of the right range by 1 - alpha, and the two
\* factors sum to exactly 1.
C13_HrpSplitFractions ==
    [][\A f \in Frames :
        (fr[f].pc = "hrp" /\ fr'[f].pc = "hrp" /\ fr'[f] # fr[f])
            => \A i \in 1 .. Len(fr'[f].items) :
                  i % 2 = 1 =>
                    LET left == fr'[f].items[i]
                        right == fr'[f].items[i + 1]
                        rl == RangeRisk(f, left)
                        rr == RangeRisk(f, right)
                        alpha == RSub(ROne, RDiv(rl, RAdd(rl, rr)))
                    IN  (RLe(RZero, rl) /\ RLe(RZero, rr) /\ ~(rl = RZero /\ rr = RZero))
                          => /\ RLe(RZero, alpha) /\ RLe(alpha, ROne)
                             /\ RAdd(alpha, RSub(ROne, alpha)) = ROne
                             /\ \A a \in Range(left) :
                                   Val(fr'[f].weights)[a] = RMul(Val(fr[f].weights)[a], alpha)
                             /\ \A a \in Range(right) :
                                   Val(fr'[f].weights)[a] =
                                       RMul(Val(fr[f].weights)[a], RSub(ROne, alpha))]_vars

\* the first generation has split off a right range without risk: alpha is
\* 0, the left range is left with nothing and the right range keeps all
C13_Witness ==
    \E f \in Frames :
        /\ fr[f].pc = "hrp" /\ Len(fr[f].items) = 2
        /\ RangeRisk(f, fr[f].items[1]) # RZero
        /\ RangeRisk(f, fr[f].items[2]) = RZero
        /\ \A a \in Range(fr[f].items[1]) : Val(fr[f].weights)[a] = RZero
        /\ \A a \in Range(fr[f].items[2]) : Val(fr[f].weights)[a] = ROne

\* the Naive Risk Allocator on the final cluster of asset a alone, as frame f
\* would call it
NaiveOnCluster(f, a) ==
    LET cluster == {b \in Assets : Val(fr[f].labels)[b] = Val(fr[f].labels)[a]}
    IN  _naive_risk(cluster, Val(objs[fr[f].obj].cov), env.rho, fr[f].args.rm)

SameCluster(f, a, b) == Val(fr[f].labels)[a] = Val(fr[f].labels)[b]

\* C14: for HERC with a forced k, two assets of the same final cluster have
\* final weights (before the projection) in the ratio the Naive Risk
\* Allocator gives them on that cluster alone, and when the loop over the
\* ranked nodes ends every member of a final cluster carries the same product
\* of split factors.
C14_HercIntraClusterRatio ==
    \A f \in Frames :
        fr[f].args.model = "HERC" =>
            /\ (fr[f].pc = "herc_final" /\ fr[f].idx = 0)
                  => \A a, b \in Assets :
                        SameCluster(f, a, b)
                            => Val(fr[f].weights)[a] = Val(fr[f].weights)[b]
            /\ HasAllocated(f)
                  => \A a, b \in Assets :
                        SameCluster(f, a, b)
                            => RMul(Val(fr[f].alloc)[a], NaiveOnCluster(f, b)[b])
                                  = RMul(Val(fr[f].alloc)[b], NaiveOnCluster(f, a)[a])

\* HERC has returned different weights to two assets of one final cluster,
\* after at least one split between clusters
C14_Witness ==
    \E f \in Frames :
        /\ fr[f].args.model = "HERC" /\ HasAllocated(f)
        /\ \E a, b \in Assets :
              /\ SameCluster(f, a, b)
              /\ RLt(Val(fr[f].alloc)[a], Val(fr[f].alloc)[b])
        /\ \E a, b \in Assets :
              /\ ~SameCluster(f, a, b)
              /\ RLt(RZero, Val(fr[f].alloc)[a])
        /\ RLt(RSumOver(Val(fr[f].alloc), {a \in Assets : SameCluster(f, a, 0)}), ROne)

\* the covariance frame f's object holds is diagonal with positive variances
DiagonalCov(f) ==
    LET cov == Val(objs[fr[f].obj].cov)
    IN  \A a, b \in Assets : IF a = b THEN cov[a][a] > 0 ELSE cov[a][b] = 0

\* C15: for HRP with rm = MV and a diagonal covariance with positive
\* variances, under every sort order an asset with a smaller variance gets a
\* larger weight.
C15_HrpLowerVarianceMoreWeight ==
    \A f \in Frames :
        (fr[f].args.model = "HRP" /\ fr[f].args.rm = "MV" /\ HasAllocated(f)
            /\ DiagonalCov(f))
            => \A a, b \in Assets :
                  Val(objs[fr[f].obj].cov)[a][a] < Val(objs[fr[f].obj].cov)[b][b]
                      => RLt(Val(fr[f].alloc)[b], Val(fr[f].alloc)[a])

\* HRP with MV has returned on a diagonal covariance in which the asset
\* that comes last in the sort order has the smallest variance
C15_Witness ==
    \E f \in Frames :
        /\ fr[f].args.model = "HRP" /\ fr[f].args.rm = "MV" /\ HasAllocated(f)
        /\ DiagonalCov(f)
        /\ LET last == Val(objs[fr[f].obj].sort_order)[NumAssets]
               cov == Val(objs[fr[f].obj].cov)
           IN  \A a \in Assets \ {last} :
                  /\ cov[last][last] < cov[a][a]
                  /\ RLt(Val(fr[f].alloc)[a], Val(fr[f].alloc)[last])

\* C16: in NCO, for every partition into k clusters, when the optimizer's
\* answer for every cluster is non-negative and sums to 1 and so is its
\* answer for the synthetic cluster-assets, the combined weights sum to 1.
C16_NcoSumsToOne ==
    \A f \in Frames :
        (fr[f].args.model = "NCO" /\ HasAllocated(f)
            /\ \A c \in DOMAIN Val(fr[f].intra) :
                  /\ SumsToOne(Val(fr[f].intra)[c])
                  /\ \A a \in Assets : RLe(RZero, Val(fr[f].intra)[c][a]))
            => /\ SumsToOne(Val(fr[f].alloc))
               /\ \A a \in Assets : RLe(RZero, Val(fr[f].alloc)[a])

\* NCO has combined a cluster of two or more assets with another cluster,
\* the optimizer's answer giving unequal weights inside the cluster
C16_Witness ==
    \E f \in Frames :
        /\ fr[f].args.model = "NCO" /\ HasAllocated(f)
        /\ \E a, b, c \in Assets :
              /\ SameCluster(f, a, b) /\ ~SameCluster(f, a, c)
              /\ RLt(Val(fr[f].alloc)[a], Val(fr[f].alloc)[b])
              /\ RLt(RZero, Val(fr[f].alloc)[c])

\* s holds every asset index exactly once
IsPermutation(s) ==
    /\ Len(s) = NumAssets
    /\ Range(s) = Assets
    /\ \A i, j \in 1 .. Len(s) : s[i] = s[j] => i = j

EqualPassPending(f) ==
    /\ fr[f].pc = "herc_final" /\ fr[f].idx < Val(fr[f].k)
    /\ fr[f].args.model = "HERC2" \/ fr[f].args.rm = "equal"

\* C18: the Naive Risk Allocator with the selector `equal`, on any subset of
\* n >= 1 assets, returns n equal weights 1 / n that sum to 1, and does not
\* evaluate the risk function.
C18_NaiveRiskEqual ==
    [][\A f \in Frames :
        (EqualPassPending(f) /\ fr'[f] # fr[f])
            => LET cluster == {a \in Assets : Val(fr[f].labels)[a] = fr[f].idx}
                   n == Cardinality(cluster)
               IN  /\ n >= 1
                   /\ fr'[f].pc = "herc_final" /\ fr'[f].err = ""
                   /\ \A a \in cluster :
                         Val(fr'[f].weights)[a] = RMul(Val(fr[f].weights)[a], <<1, n>>)
                   /\ \A a \in Assets \ cluster :
                         Val(fr'[f].weights)[a] = Val(fr[f].weights)[a]
                   /\ RSumOver([a \in cluster |-> <<1, n>>], cluster) = ROne
                   /\ _naive_risk_evaluations(cluster, "equal") = {}]_vars

\* HERC2 with a risk measure has weighed a cluster of two or more assets
\* equally, beside another cluster
C18_Witness ==
    \E f \in Frames :
        /\ fr[f].args.model = "HERC2" /\ fr[f].args.rm # "equal" /\ HasAllocated(f)
        /\ \E a, b, c \in Assets :
              /\ a # b /\ SameCluster(f, a, b) /\ ~SameCluster(f, a, c)
              /\ Val(fr[f].alloc)[a] = Val(fr[f].alloc)[b]
              /\ Val(objs[fr[f].obj].cov)[a][a] # Val(objs[fr[f].obj].cov)[b][b]

\* the members of the cluster with label c in frame f
ClusterOf(f, c) == {a \in Assets : Val(fr[f].labels)[a] = c}

\* the labels of the clusters of frame f the optimizer fails on (a cluster of
\* one asset never reaches the optimizer)
FailingClusters(f) ==
    {c \in DOMAIN Val(fr[f].intra) :
        Cardinality(ClusterOf(f, c)) >= 2 /\ ClusterOf(f, c) \in env.opt_fail}

\* frame f is in the NCO allocator or has left it, and the optimizer fails on
\* one of its clusters
IntraFailure(f) ==
    /\ fr[f].args.model = "NCO" /\ Ran(f, "NCO")
    /\ fr[f].args.obj \in Objectives
    /\ FailingClusters(f) # {}

\* C19: when the external optimizer fails for a cluster in the intra stage of
\* NCO, the call raises there: the cluster is not tried again, the inter stage
\* and the projection do not run, and no weights are returned.
C19_OptimizerFailurePropagates ==
    /\ [](\A f \in Frames :
            IntraFailure(f)
                => /\ fr[f].pc \in {"nco", "raised"}
                   /\ fr[f].idx <= SetMin(FailingClusters(f))
                   /\ IsNone(fr[f].weights) /\ IsNone(fr[f].alloc) /\ IsNone(fr[f].ret)
                   /\ ~InProjection(f)
                   /\ fr[f].pc = "raised"
                         => /\ fr[f].err = "OptimizerError"
                            /\ fr[f].idx = SetMin(FailingClusters(f)))
    /\ [][\A f \in Frames :
            (IntraFailure(f) /\ fr[f].pc = "nco" /\ fr'[f] # fr[f]
                /\ fr[f].idx = SetMin(FailingClusters(f)))
                => fr'[f].pc = "raised"]_vars

\* the call has raised at its second cluster, after the optimizer answered
\* for the first
C19_Witness ==
    \E f \in Frames :
        /\ IntraFailure(f) /\ fr[f].pc = "raised" /\ fr[f].idx >= 1
        /\ \E a \in Assets : RLt(RZero, Val(fr[f].intra)[0][a])

\* C20: for HERC and HERC2 with the selector `equal`, at each processed
\* top-ranked internal node no risk is evaluated and the split is 50/50: the
\* weights of the left leaves are multiplied by 0.5 and those of the right
\* leaves by 0.5.
C20_EqualSplitsInHalves ==
    [][\A f \in Frames :
        (fr[f].pc = "herc" /\ fr[f].args.model \in {"HERC", "HERC2"}
            /\ fr[f].args.rm = "equal"
            /\ fr[f].idx <= Len(fr[f].nodes) /\ fr'[f] # fr[f])
            => LET Z == Val(fr[f].Z)
                   v == fr[f].nodes[fr[f].idx]
               IN  ~is_leaf(v)
                     => /\ fr'[f].pc = "herc" /\ fr'[f].idx = fr[f].idx + 1
                        /\ \A a \in LeafSet(Z, get_left(Z, v)) \cup LeafSet(Z, get_right(Z, v)) :
                              Val(fr'[f].weights)[a] = RMul(Val(fr[f].weights)[a], <<1, 2>>)]_vars

\* frame f's loop is at the internal node v = nodes[idx], and no cluster of
\* the partition lies inside the leaves of v's left child or of its right child
NoClusterOnEitherSide(f) ==
    /\ fr[f].pc = "herc" /\ fr[f].idx <= Len(fr[f].nodes)
    /\ LET Z == Val(fr[f].Z)
           v == fr[f].nodes[fr[f].idx]
       IN  /\ ~is_leaf(v)
           /\ \A c \in fr[f].clusters :
                 /\ ~(c \subseteq LeafSet(Z, get_left(Z, v)))
                 /\ ~(c \subseteq LeafSet(Z, get_right(Z, v)))

\* C21: in HERC/HERC2 with a risk selector other than `equal`, at a processed
\* node where no final cluster is a subset of the left descendant set and
\* none of the right, both risk totals are zero, no error is raised and the
\* allocation goes on with the next node, the weights as they were.
C21_EmptySidesContinueSilently ==
    [][\A f \in Frames :
        (NoClusterOnEitherSide(f) /\ fr[f].args.rm # "equal"
            /\ fr[f].args.model \in {"HERC", "HERC2"} /\ fr'[f] # fr[f])
            => /\ fr'[f].pc = "herc" /\ fr'[f].err = ""
               /\ fr'[f].idx = fr[f].idx + 1
               /\ fr'[f].weights = fr[f].weights]_vars

\* the nodes frame f's loop goes through are internal nodes, k - 1 of them,
\* by merge distance from the highest down, and no internal node left out has
\* a higher distance than one of them
LoopOverTopInternalNodes(f) ==
    LET Z == Val(fr[f].Z)
        nodes == fr[f].nodes
    IN  /\ Len(nodes) = Val(objs[fr[f].obj].k) - 1
        /\ \A i \in 1 .. Len(nodes) : ~is_leaf(nodes[i])
        /\ \A i, j \in 1 .. Len(nodes) :
              i < j => nodes[i] # nodes[j] /\ NodeDist(Z, nodes[i]) >= NodeDist(Z, nodes[j])
        /\ \A u \in InternalIds \ Range(nodes) :
              \A i \in 1 .. Len(nodes) : NodeDist(Z, nodes[i]) >= NodeDist(Z, u)

C22_LoopOverTopInternalNodes ==
    \A f \in Frames : fr[f].pc = "herc" => LoopOverTopInternalNodes(f)

\* C22: HERC/HERC2 ranks only the internal merge nodes by merge distance,
\* descending, and applies a split at exactly k - 1 of them, for every
\* dendrogram and every k in 1 .. n, tied and zero merge distances included:
\* the loop goes over the k - 1 highest internal nodes and each of its steps
\* rescales the weights and moves on to the next node.
C22_SplitsAtTopInternalNodes ==
    /\ [](\A f \in Frames : fr[f].pc = "herc" => LoopOverTopInternalNodes(f))
    /\ [][\A f \in Frames :
            (fr[f].pc = "herc" /\ fr[f].idx <= Len(fr[f].nodes) /\ fr'[f] # fr[f])
                => /\ fr'[f].pc = "herc" /\ fr'[f].idx = fr[f].idx + 1
                   /\ fr'[f].weights # fr[f].weights]_vars

LongerThanOne(i) == Len(i) > 1

\* frame f takes a step of the HRP loop that is not its exit
HrpStep(f) == fr[f].pc = "hrp" /\ fr'[f].pc = "hrp" /\ fr'[f] # fr[f]

\* C23: in HRP every range of length m > 1 is split into a left range of its
\* first floor(m / 2) elements and a right range of the other m - floor(m / 2)
\* elements, in the same order; a range of length 1 is weighted in the
\* generation that produced it and is never split again.
C23_HrpSplitsAtFloorMidpoint ==
    [][\A f \in Frames :
        HrpStep(f) =>
            LET parents == SelectSeq(fr[f].items, LongerThanOne)
                items == fr'[f].items
            IN  /\ Len(items) = 2 * Len(parents)
                /\ \A p \in 1 .. Len(parents) :
                      LET m == Len(parents[p])
                      IN  /\ items[2 * p - 1] = SubSeq(parents[p], 1, m \div 2)
                          /\ items[2 * p] = SubSeq(parents[p], (m \div 2) + 1, m)
                          /\ Len(items[2 * p - 1]) <= Len(items[2 * p])
                /\ \A a \in Assets :
                      IF \E i \in 1 .. Len(items) : a \in Range(items[i])
                      THEN Val(fr'[f].weights)[a] # Val(fr[f].weights)[a]
                      ELSE Val(fr'[f].weights)[a] = Val(fr[f].weights)[a]]_vars

\* a generation of the loop has produced a range of length 1 as the left
\* half of a parent
C23_Witness ==
    \E f \in Frames :
        /\ fr[f].pc = "hrp" /\ Len(fr[f].items) >= 2
        /\ Len(fr[f].items[1]) = 1
        /\ Len(fr[f].items[1]) <= Len(fr[f].items[2])
        /\ \E a \in Assets : Val(fr[f].weights)[a] # ROne

\* C24: for HERC2 the final intra-cluster pass weighs equally whatever the
\* risk selector, so two assets of one final cluster have equal final weights
\* before the projection; for HERC the pass multiplies by the weights of the
\* Naive Risk Allocator with the selected risk measure.
C24_FinalPassByModel ==
    /\ [](\A f \in Frames :
            (fr[f].args.model = "HERC2" /\ HasAllocated(f))
                => \A a, b \in Assets :
                      SameCluster(f, a, b) => Val(fr[f].alloc)[a] = Val(fr[f].alloc)[b])
    /\ [][\A f \in Frames :
            (fr[f].pc = "herc_final" /\ fr[f].idx < Val(fr[f].k) /\ fr'[f] # fr[f])
                => \A a \in ClusterOf(f, fr[f].idx) :
                      Val(fr'[f].weights)[a] =
                          RMul(Val(fr[f].weights)[a],
                               IF fr[f].args.model = "HERC"
                               THEN NaiveOnCluster(f, a)[a]
                               ELSE <<1, Cardinality(ClusterOf(f, fr[f].idx))>>)]_vars

\* HERC2 with rm = MV has returned equal weights to two assets of one
\* cluster whose variances differ, and less to each than to an asset of
\* another cluster
C24_Witness ==
    \E f \in Frames :
        /\ fr[f].args.model = "HERC2" /\ fr[f].args.rm = "MV" /\ HasAllocated(f)
        /\ \E a, b, c \in Assets :
              /\ a # b /\ SameCluster(f, a, b) /\ ~SameCluster(f, a, c)
              /\ Val(fr[f].alloc)[a] = Val(fr[f].alloc)[b]
              /\ RLt(Val(fr[f].alloc)[a], Val(fr[f].alloc)[c])
              /\ Val(objs[fr[f].obj].cov)[a][a] < Val(objs[fr[f].obj].cov)[b][b]

\* the partition the final pass of frame f uses: the classes of
\* cut_tree(Z, n_clusters=k)
FinalPartition(f) ==
    LET k == Val(objs[fr[f].obj].k)
        labels == cut_tree(Val(fr[f].Z), k)
    IN  {{a \in Assets : labels[a] = c} : c \in 0 .. (k - 1)}

\* C27: in HERC/HERC2 the partition used to accumulate the left and right
\* risks at the split nodes and the partition of the final intra-cluster
\* pass are the same partition of all the assets into exactly k non-empty
\* clusters, for every dendrogram and every k in 1 .. n.
C27_OnePartitionIntoK ==
    \A f \in Frames :
        (fr[f].args.model \in {"HERC", "HERC2"} /\ fr[f].pc \in {"herc", "herc_final"})
            => /\ fr[f].clusters = FinalPartition(f)
               /\ Cardinality(fr[f].clusters) = Val(objs[fr[f].obj].k)
               /\ {} \notin fr[f].clusters
               /\ UNION fr[f].clusters = Assets

\* frame f runs one round of the projection loop
RoundStep(f) == fr[f].pc = "round" /\ fr'[f].pc = "round" /\ fr'[f].j = fr[f].j + 1

\* the weights of frame f clipped into its bounds, and the assets strictly
\* inside their bounds after the clipping
Clipped(f) ==
    [a \in Assets |->
        RMax(RMin(Val(fr[f].weights)[a], Val(fr[f].upper_bound)[a]),
             Val(fr[f].lower_bound)[a])]

Pool(f) ==
    {a \in Assets :
        /\ RLt(Clipped(f)[a], Val(fr[f].upper_bound)[a])
        /\ RLt(Val(fr[f].lower_bound)[a], Clipped(f)[a])}

\* the total clipped off above the upper bounds plus the (negative) total
\* added below the lower bounds
Delta(f) ==
    RAdd(RSumOver([a \in Assets |->
             RMax(RSub(Val(fr[f].weights)[a], Val(fr[f].upper_bound)[a]), RZero)], Assets),
         RSumOver([a \in Assets |->
             RMin(RSub(Val(fr[f].weights)[a], Val(fr[f].lower_bound)[a]), RZero)], Assets))

\* C25: in each round of the projection with delta # 0, after the clipping
\* every asset on its lower or upper bound keeps its clipped weight and every
\* asset i strictly inside its bounds receives delta * w_i / (sum of the
\* clipped weights of the assets strictly inside).
C25_RoundRedistributesProportionally ==
    [][\A f \in Frames :
        (RoundStep(f) /\ Delta(f) # RZero)
            => \A a \in Assets :
                  Val(fr'[f].weights)[a] =
                      IF a \in Pool(f)
                      THEN RAdd(Clipped(f)[a],
                                RDiv(RMul(Delta(f), Clipped(f)[a]),
                                     RSumOver(Clipped(f), Pool(f))))
                      ELSE Clipped(f)[a]]_vars

\* after one round an asset clipped at its upper bound sits on it and two
\* assets inside their bounds have received different shares of delta
C25_Witness ==
    \E f \in Frames :
        /\ fr[f].pc = "round" /\ fr[f].j = 1
        /\ \E c \in Assets :
              /\ RLt(Val(fr[f].upper_bound)[c], Val(fr[f].alloc)[c])
              /\ Val(fr[f].weights)[c] = Val(fr[f].upper_bound)[c]
        /\ \E a, b \in Assets :
              /\ RLt(Val(fr[f].alloc)[a], Val(fr[f].weights)[a])
              /\ RLt(RSub(Val(fr[f].weights)[a], Val(fr[f].alloc)[a]),
                     RSub(Val(fr[f].weights)[b], Val(fr[f].alloc)[b]))

\* C29: each round of the projection in which at least one asset is strictly
\* inside its bounds after the clipping preserves the total weight.
C29_RoundPreservesTotal ==
    [][\A f \in Frames :
        (RoundStep(f) /\ Pool(f) # {})
            => RSumOver(Val(fr'[f].weights), Assets) = RSumOver(Val(fr[f].weights), Assets)]_vars

\* a round has raised an asset to its lower bound and taken the amount from
\* the assets inside their bounds: the total is the allocator's
C29_Witness ==
    \E f \in Frames :
        /\ fr[f].pc = "round" /\ fr[f].j = 1
        /\ \E a \in Assets :
              /\ RLt(Val(fr[f].alloc)[a], Val(fr[f].lower_bound)[a])
              /\ Val(fr[f].weights)[a] = Val(fr[f].lower_bound)[a]
        /\ \E b \in Assets : RLt(Val(fr[f].weights)[b], Val(fr[f].alloc)[b])
        /\ RSumOver(Val(fr[f].weights), Assets) = RSumOver(Val(fr[f].alloc), Assets)

\* C30: when the projection returns having run fewer than 100 rounds, every
\* returned weight is within its bounds; a returned weight outside its bounds
\* is possible only after exactly 100 rounds.
C30_FewerRoundsWithinBounds ==
    \A f \in Frames :
        fr[f].pc = "returned" =>
            /\ fr[f].j < max_iter
                  => WithinBounds(Val(fr[f].ret), Val(fr[f].upper_bound), Val(fr[f].lower_bound))
            /\ ~WithinBounds(Val(fr[f].ret), Val(fr[f].upper_bound), Val(fr[f].lower_bound))
                  => fr[f].j = max_iter

\* the call has returned after two or more rounds, fewer than 100, weights
\* that differ from the allocator's
C30_Witness ==
    \E f \in Frames :
        /\ fr[f].pc = "returned" /\ fr[f].j >= 2 /\ fr[f].j < max_iter
        /\ fr[f].ret # fr[f].alloc
        /\ ~WithinBounds(Val(fr[f].alloc), Val(fr[f].upper_bound), Val(fr[f].lower_bound))

\* the length of the longest range of a worklist, 0 when it is empty
LongestRange(items) ==
    IF items = <<>> THEN 0
    ELSE SetMax({Len(items[i]) : i \in 1 .. Len(items)})

InWorklist(items, a) == \E i \in 1 .. Len(items) : a \in Range(items[i])

\* C26: the HRP worklist loop terminates for every sort order: the longest
\* range of the worklist shrinks in every generation until the worklist is
\* empty, and an asset leaves the worklist only as a range of length 1.
C26_HrpWorklistShrinks ==
    /\ [](\A f \in Frames :
            fr[f].pc = "hrp" => LongestRange(fr[f].items) <= NumAssets)
    /\ [][\A f \in Frames :
            (fr[f].pc = "hrp" /\ fr'[f] # fr[f])
                => IF fr[f].items = <<>>
                   THEN fr'[f].pc = "project"
                   ELSE /\ HrpStep(f)
                        /\ LongestRange(fr'[f].items) < LongestRange(fr[f].items)
                        /\ \A a \in Assets :
                              (InWorklist(fr[f].items, a) /\ ~InWorklist(fr'[f].items, a))
                                  => \E i \in 1 .. Len(fr[f].items) :
                                        fr[f].items[i] = <<a>>]_vars

\* the loop has ended on an empty worklist with every asset weighted
C26_Witness ==
    \E f \in Frames :
        /\ fr[f].args.model = "HRP" /\ fr[f].pc = "project" /\ fr[f].items = <<>>
        /\ \A a \in Assets : RLt(Val(fr[f].weights)[a], ROne)

\* s is a contiguous slice of the sequence t
IsSlice(s, t) ==
    \E b \in 1 .. Len(t) : b + Len(s) - 1 <= Len(t) /\ s = SubSeq(t, b, b + Len(s) - 1)

====
